---- MODULE Spec2Model ----
(***************************************************************************)
(* Firmware-table discovery and processor bring-up of the tachyon kernel:  *)
(* the MADT record iterator (acpi/madt/mod.rs), the x86 processor bring-up *)
(* protocol (acpi/madt/arch/x86.rs) and the root-pointer locator           *)
(* (acpi/rsdp.rs).                                                         *)
(***************************************************************************)
EXTENDS Integers, Sequences, FiniteSets, TLC

VARIABLES
    \* ---- the MADT as it lies in memory (acpi/sdt.rs, acpi/madt/mod.rs)
    madt_mem,       \* bytes from Sdt::data_address() on, offset o at madt_mem[o+1]
    sdt_length,     \* Sdt.length, the declared total length of the table
    sdt_signature,  \* Sdt.signature
    \* ---- Madt / MadtIter
    madt,           \* result of Madt::new: "unset", "none" or "some"
    it_i,           \* MadtIter.i
    it_last,        \* what the last call of next() returned
    reads,          \* offsets (from data_address) next() has read
    yielded,        \* records next() has yielded: [off, len, item]
    \* ---- x86 processor bring-up (acpi/madt/arch/x86.rs)
    firmware,       \* the records firmware laid out in the MADT, in table order
    me,             \* local_apic.id() as u8, the primary core's id
    x2,             \* local_apic.x2
    multi_core,     \* cfg!(feature = "multi_core")
    pc,             \* the primary core's position in init()
    cur,            \* data offset of the record being handled
    stack_start,    \* stack_start of the record being handled
    frames,         \* p2frames handed out by allocate_p2frame
    cb,             \* the control block at TRAMPOLINE + 8
    AP_READY,       \* start::AP_READY
    CPU_COUNT,      \* start::CPU_COUNT
    trampoline_mapped,  \* the page at TRAMPOLINE is mapped
    trampoline_image,   \* TRAMPOLINE_DATA has been copied into the page
    log,            \* what the primary core did, in order
    ap_state,       \* each secondary core: halted, wait_sipi, trampoline, kernel, up, stalled
    ap_boot,        \* the control blocks secondary cores booted from: [id, cb]
    \* ---- root pointer locator (acpi/rsdp.rs)
    pmem,           \* physical memory: address -> byte where firmware wrote, 0 elsewhere
    supplied,       \* already_supplied_rsdp: [some, ptr]
    rpc,            \* position in RSDP::get_rsdp
    frame_i,        \* the frame the mapping loop of get_rsdp_by_searching is at
    mapped_frames,  \* frames of the window mapped so far
    scan_addr,      \* the address the scan of search() is at
    read_hi,        \* highest address search() has read
    rsdp,           \* what get_rsdp returned: [some, addr]
    ck_phase,       \* checksum round trip: valid, flipped, repaired
    ck_addr,        \* address of the descriptor of the round trip
    ck_flip,        \* offset of the byte the round trip changed
    ck_ok,          \* what validate_checksum returned for that descriptor
    \* ---- root lists (acpi/rsdt.rs, acpi/xsdt.rs)
    rx_addrs,       \* the addresses firmware encoded in both root lists, 4 bytes each
    usize_bytes,    \* width of usize on the target
    rsdt_tab,       \* the RSDT: [data, length]
    xsdt_tab,       \* the XSDT: [data, length]
    rsdt_it,        \* RsdtIter: [i, out, done]
    xsdt_it,        \* XsdtIter: [i, out, done]
    rsdt_runs,      \* what finished RSDT iterators yielded
    xsdt_runs,      \* what finished XSDT iterators yielded
    \* ---- table registry (acpi/mod.rs)
    arch,           \* target_arch
    root,           \* the table at rsdp.sdt_address(): [signature, entries]
    tables,         \* the tables firmware placed: address -> header
    SDT_POINTERS,   \* the registry: [some, map], map from SdtSignature to table address
    RXSDT_ENUM,     \* the Once holding the root list: "unset", "Rsdt" or "Xsdt"
    apc,            \* position of each caller of acpi::init
    a_i,            \* each caller's cursor into the root list
    a_rsdp,         \* what get_rsdp returned to each caller
    map_failed,     \* addresses for which map_linearly logged a failure
    derefs,         \* addresses get_sdt has dereferenced
    seen,           \* registry entries that have been visible to find_sdt
    writers,        \* callers that have written the registry
    found,          \* the last find_sdt call of an observer: [called, name, result]
    alog,           \* what was printed or logged: <<caller, message>>
    \* ---- what the table consumers set up
    hpet_slot,      \* ACPI_TABLE.hpet
    COM1,           \* device::serial::COM1
    MADT,           \* madt::MADT
    timer_irqs,     \* interrupts registered and enabled for the generic timer
    arch_inits,     \* calls of madt::arch::init
    device_maps,    \* calls of map_device_memory and Hpet::map
    \* ---- aarch64 interrupt-controller bring-up (acpi/madt/arch/aarch64.rs)
    gic_fw,         \* the records firmware laid out in the MADT, in table order
    gpc,            \* position inside arch::init
    g_i,            \* cursor of the MadtIter the collection loop drives
    giccs,          \* the Vec of GICC references collected so far
    gicd_opt,       \* the GICD reference kept, NoTable for None
    gic_dist_if,    \* distributor interfaces initialised: their base addresses
    gic_cpu_ifs,    \* CPU interfaces initialised: [kind, base]
    irq_chip_list,  \* IRQ_CHIP.irq_chip_list.chips
    irq_chip_init,  \* IRQ_CHIP.init(None) has been called
    glog,           \* warnings logged by arch::init
    \* ---- KernelMapper guards and the kernel heap (allocator/)
    kprog,          \* what the caller has still to do: lock, unlock and alloc steps
    kpc,            \* the caller: "run", "in_alloc", "done" or "abort"
    km_guards,      \* live KernelMapper guards, oldest first: [site, exclusive]
    heap_size,      \* HEAP.size(), in pages
    heap_used,      \* pages of the heap handed out
    heap_mapped,    \* heap pages (by index from KERNEL_HEAP_OFFSET) that are mapped
    hpc,            \* position inside Allocator::alloc
    alloc_size,     \* layout.size() of the allocation in progress, in pages
    alloc_ret,      \* what alloc returned last: [called, null, ptr]
    page_i,         \* map_heap's cursor into the page range
    map_failed_once,\* map_heap has logged a failure
    hlog            \* errors logged by map_heap

madtVars == <<madt_mem, sdt_length, sdt_signature>>
iterVars == <<madt, it_i, it_last, reads, yielded>>
bringupVars == <<firmware, me, x2, multi_core, pc, cur, stack_start, frames, cb,
                 AP_READY, CPU_COUNT, trampoline_mapped, trampoline_image, log,
                 ap_state, ap_boot>>

rsdpVars == <<pmem, supplied, rpc, frame_i, mapped_frames, scan_addr, read_hi, rsdp,
              ck_phase, ck_addr, ck_flip, ck_ok>>

rxVars == <<rx_addrs, usize_bytes, rsdt_tab, xsdt_tab, rsdt_it, xsdt_it, rsdt_runs,
            xsdt_runs>>

acpiVars == <<arch, root, tables, SDT_POINTERS, RXSDT_ENUM, apc, a_i, a_rsdp, map_failed,
              derefs, seen, writers, found, alog>>

consumerVars == <<hpet_slot, COM1, MADT, timer_irqs, arch_inits, device_maps>>

gicVars == <<gic_fw, gpc, g_i, giccs, gicd_opt, gic_dist_if, gic_cpu_ifs, irq_chip_list,
             irq_chip_init, glog>>

heapVars == <<kprog, kpc, km_guards, heap_size, heap_used, heap_mapped, hpc, alloc_size,
              alloc_ret, page_i, map_failed_once, hlog>>

extVars == <<rxVars, acpiVars, consumerVars, gicVars, heapVars>>

vars == <<madtVars, iterVars, bringupVars, rsdpVars, extVars>>

-----------------------------------------------------------------------------
(* Sdt: header size and data region *)

SDT_SIZE == 36

\* Sdt::data_len: total_size.checked_sub(header_size).unwrap_or(0)
data_len(length) == IF length >= SDT_SIZE THEN length - SDT_SIZE ELSE 0

\* the byte at data_address() + o; memory past the modelled bytes reads as 0
ByteAt(m, o) == IF o >= 0 /\ o < Len(m) THEN m[o + 1] ELSE 0

-----------------------------------------------------------------------------
(* MADT records *)

SizeOfMadtLocalApic == 6
SizeOfMadtIoApic == 10
SizeOfMadtIntSrcOverride == 8
SizeOfMadtGicc == 78
SizeOfMadtGicd == 22

\* a typed variant: a reference to the structure at data offset ptr
Typed(kind, i, size) == [kind |-> kind, ptr |-> i + 2, size |-> size]
UnknownEntry(tag) == [kind |-> "Unknown", tag |-> tag]
TypedKinds == {"LocalApic", "IoApic", "IntSrcOverride", "Gicc", "Gicd"}

\* the match with the local-APIC arm accepting any length that holds the structure
MadtEntryOfAtLeast(entry_type, entry_len, i) ==
    IF entry_type = 0 /\ entry_len >= SizeOfMadtLocalApic + 2
        THEN Typed("LocalApic", i, SizeOfMadtLocalApic)
    ELSE IF entry_type = 1 /\ entry_len = SizeOfMadtIoApic + 2
        THEN Typed("IoApic", i, SizeOfMadtIoApic)
    ELSE IF entry_type = 2 /\ entry_len = SizeOfMadtIntSrcOverride + 2
        THEN Typed("IntSrcOverride", i, SizeOfMadtIntSrcOverride)
    ELSE IF entry_type = 11 /\ entry_len >= SizeOfMadtGicc + 2
        THEN Typed("Gicc", i, SizeOfMadtGicc)
    ELSE IF entry_type = 12 /\ entry_len >= SizeOfMadtGicd + 2
        THEN Typed("Gicd", i, SizeOfMadtGicd)
    ELSE UnknownEntry(entry_type)

\* the match of MadtIter::next
MadtEntryOf(entry_type, entry_len, i) ==
    IF entry_type = 0 /\ entry_len = SizeOfMadtLocalApic + 2
        THEN Typed("LocalApic", i, SizeOfMadtLocalApic)
    ELSE IF entry_type = 1 /\ entry_len = SizeOfMadtIoApic + 2
        THEN Typed("IoApic", i, SizeOfMadtIoApic)
    ELSE IF entry_type = 2 /\ entry_len = SizeOfMadtIntSrcOverride + 2
        THEN Typed("IntSrcOverride", i, SizeOfMadtIntSrcOverride)
    ELSE IF entry_type = 11 /\ entry_len >= SizeOfMadtGicc + 2
        THEN Typed("Gicc", i, SizeOfMadtGicc)
    ELSE IF entry_type = 12 /\ entry_len >= SizeOfMadtGicd + 2
        THEN Typed("Gicd", i, SizeOfMadtGicd)
    ELSE UnknownEntry(entry_type)

\* the first bounds check written as i >= data_len: the length byte escapes it
HeaderOutOfBoundsLoose(i, dlen) == i >= dlen

\* the first bounds check of MadtIter::next: no room for the tag and length bytes
HeaderOutOfBounds(i, dlen) == i + 1 >= dlen

\* the second bounds check: the declared length overruns the data region
EntryOverruns(i, entry_len, dlen) == i + entry_len > dlen

\* MadtIter::next on the table bytes m with data length dlen and cursor i:
\* what it returns, the cursor afterwards and the offsets it read
MadtIterNext(m, dlen, i) ==
    IF HeaderOutOfBounds(i, dlen)
        THEN [some |-> FALSE, i |-> i, reads |-> {}]
    ELSE LET entry_type == ByteAt(m, i)
             entry_len == ByteAt(m, i + 1)
         IN IF EntryOverruns(i, entry_len, dlen)
                THEN [some |-> FALSE, i |-> i, reads |-> {i, i + 1}]
            ELSE [some |-> TRUE,
                  item |-> MadtEntryOf(entry_type, entry_len, i),
                  len |-> entry_len,
                  i |-> i + entry_len,
                  reads |-> {i, i + 1}]

-----------------------------------------------------------------------------
(* Tables the iterator is run on *)

MaxEntries == 2
\* bytes by which the declared table length may cut the last record short
MaxTrunc == 2

Max(a, b) == IF a >= b THEN a ELSE b

\* one record as firmware lays it out: tag, declared length, zeroed payload
EntryBytes(tag, len) == <<tag, len>> \o [k \in 1..Max(len - 2, 0) |-> 0]

\* local_address and flags, the 8 bytes before the first record
MadtPrefix == [k \in 1..8 |-> 0]

RECURSIVE Concat(_)
Concat(ss) == IF ss = <<>> THEN <<>> ELSE Head(ss) \o Concat(Tail(ss))

SeqsUpTo(S, n) == UNION {[1..k -> S] : k \in 0..n}

\* <<tag, declared length>> of the records tables are built from: every known
\* tag at, below and above its native size, unknown tags, lengths 0 and 1
EntryHeaders ==
    { <<0, 8>>, <<0, 7>>, <<0, 10>>, <<0, 0>>,
      <<1, 12>>, <<1, 8>>, <<1, 13>>,
      <<2, 10>>, <<2, 8>>,
      <<11, 80>>, <<11, 82>>, <<11, 79>>,
      <<12, 24>>, <<12, 26>>, <<12, 23>>,
      <<5, 4>>, <<5, 1>>, <<5, 2>> }

IterTables ==
    { MadtPrefix \o Concat([k \in DOMAIN hs |-> EntryBytes(hs[k][1], hs[k][2])]) :
        hs \in SeqsUpTo(EntryHeaders, MaxEntries) }

\* declared lengths: the whole table, the last record cut short, and headers
\* too short for a MADT (no data prefix, not even a whole header)
TableLengths(m) ==
    { SDT_SIZE + Len(m) - t : t \in 0..MaxTrunc } \cup {SDT_SIZE + 7, SDT_SIZE - 1}

-----------------------------------------------------------------------------
(* Madt::new, Madt::iter and MadtIter::next as steps *)

DataLen == data_len(sdt_length)

NoCall == [called |-> FALSE]
RetNone == [called |-> TRUE, some |-> FALSE]
RetSome(off, len, item) ==
    [called |-> TRUE, some |-> TRUE, off |-> off, len |-> len, item |-> item]

\* Madt::new: Some only for signature "APIC" with at least the 8 prefix bytes
MadtNewOk(sig, length) == sig = "APIC" /\ data_len(length) >= 8

MadtNew ==
    /\ madt = "unset"
    /\ madt' = IF MadtNewOk(sdt_signature, sdt_length) THEN "some" ELSE "none"
    /\ UNCHANGED <<rsdpVars, extVars, madtVars, it_i, it_last, reads, yielded, bringupVars>>

\* Madt::iter: MadtIter { sdt, i: 8 }
MadtIterCreate ==
    /\ madt = "some"
    /\ it_i = -1
    /\ it_i' = 8
    /\ UNCHANGED <<rsdpVars, extVars, madtVars, madt, it_last, reads, yielded, bringupVars>>

\* the iterator after one call of MadtIter::next that returned r
IterAdvance(r) ==
    /\ it_i' = r.i
    /\ reads' = reads \cup r.reads
    /\ it_last' = IF r.some THEN RetSome(it_i, r.len, r.item) ELSE RetNone
    /\ yielded' = IF r.some
                     THEN yielded \cup {[off |-> it_i, len |-> r.len, item |-> r.item]}
                     ELSE yielded

\* one call of MadtIter::next
MadtIterStep ==
    /\ pc = "off"
    /\ it_i >= 0
    /\ IterAdvance(MadtIterNext(madt_mem, DataLen, it_i))
    /\ UNCHANGED <<rsdpVars, extVars, madtVars, madt, bringupVars>>

\* the root pointer locator is not running
RsdpOff ==
    /\ pmem = <<>>
    /\ supplied = [some |-> FALSE, ptr |-> 0]
    /\ rpc = "off"
    /\ frame_i = 0
    /\ mapped_frames = {}
    /\ scan_addr = 0
    /\ read_hi = 0
    /\ rsdp = [some |-> FALSE, addr |-> 0]
    /\ ck_phase = "off"
    /\ ck_addr = 0
    /\ ck_flip = -1
    /\ ck_ok = FALSE

\* no root list is being iterated
RxOff ==
    /\ rx_addrs = <<>>
    /\ usize_bytes = 8
    /\ rsdt_tab = [data |-> <<>>, length |-> 0]
    /\ xsdt_tab = [data |-> <<>>, length |-> 0]
    /\ rsdt_it = [i |-> 0, out |-> <<>>, done |-> FALSE]
    /\ xsdt_it = [i |-> 0, out |-> <<>>, done |-> FALSE]
    /\ rsdt_runs = <<>>
    /\ xsdt_runs = <<>>

\* acpi::init has no caller
AcpiOff ==
    /\ arch = "x86_64"
    /\ root = [signature |-> <<>>, entries |-> <<>>]
    /\ tables = <<>>
    /\ SDT_POINTERS = [some |-> FALSE, map |-> <<>>]
    /\ RXSDT_ENUM = "unset"
    /\ apc = <<>>
    /\ a_i = <<>>
    /\ a_rsdp = <<>>
    /\ map_failed = {}
    /\ derefs = {}
    /\ seen = {}
    /\ writers = {}
    /\ found = [called |-> FALSE, name |-> <<>>, result |-> {}]
    /\ alog = {}

\* Option::None where Some holds a table address
NoTable == -1

\* what the consumers set up, before any of them ran
ConsumersOff ==
    /\ hpet_slot = NoTable
    /\ COM1 = NoTable
    /\ MADT = NoTable
    /\ timer_irqs = {}
    /\ arch_inits = 0
    /\ device_maps = {}

\* the aarch64 interrupt-controller bring-up is not running
GicOff ==
    /\ gic_fw = <<>>
    /\ gpc = "off"
    /\ g_i = 0
    /\ giccs = <<>>
    /\ gicd_opt = NoTable
    /\ gic_dist_if = <<>>
    /\ gic_cpu_ifs = <<>>
    /\ irq_chip_list = <<>>
    /\ irq_chip_init = FALSE
    /\ glog = <<>>

\* no caller is taking the KernelMapper or allocating
HeapOff ==
    /\ kprog = <<>>
    /\ kpc = "off"
    /\ km_guards = <<>>
    /\ heap_size = 0
    /\ heap_used = 0
    /\ heap_mapped = {}
    /\ hpc = "idle"
    /\ alloc_size = 0
    /\ alloc_ret = NoCall
    /\ page_i = 0
    /\ map_failed_once = FALSE
    /\ hlog = <<>>

ExtOff ==
    /\ RxOff
    /\ AcpiOff
    /\ ConsumersOff
    /\ GicOff
    /\ HeapOff

\* the processor bring-up is not running
BringupOff ==
    /\ firmware = <<>>
    /\ me = 0
    /\ x2 = FALSE
    /\ multi_core = FALSE
    /\ pc = "off"
    /\ cur = 0
    /\ stack_start = 0
    /\ frames = 0
    /\ cb = <<>>
    /\ AP_READY = FALSE
    /\ CPU_COUNT = 1
    /\ trampoline_mapped = FALSE
    /\ trampoline_image = FALSE
    /\ log = <<>>
    /\ ap_state = <<>>
    /\ ap_boot = {}

IterInit ==
    /\ madt_mem \in IterTables
    /\ sdt_length \in TableLengths(madt_mem)
    /\ sdt_signature \in {"APIC", "HPET"}
    /\ madt = "unset"
    /\ it_i = -1
    /\ it_last = NoCall
    /\ reads = {}
    /\ yielded = {}
    /\ BringupOff
    /\ RsdpOff
    /\ ExtOff

IterNext == MadtNew \/ MadtIterCreate \/ MadtIterStep

SpecIter == IterInit /\ [][IterNext]_vars

-----------------------------------------------------------------------------
(* C6: the iterator stays inside the data region *)

\* the declared length of the record at data offset off, as firmware wrote it
DeclaredLen(off) == ByteAt(madt_mem, off + 1)

\* C6: MadtIter::next reads the tag and length bytes only at offsets below the
\* table's data length (length minus the 36-byte header); a record whose
\* declared length runs past the data length is not yielded but ends the
\* iteration (next() returned None with the cursor left on it); every typed
\* record yielded lies entirely inside the data region.
IterStaysInBounds ==
    /\ \A o \in reads : 0 <= o /\ o < DataLen
    /\ DataLen = IF sdt_length >= 36 THEN sdt_length - 36 ELSE 0
    /\ \A y \in yielded :
        /\ y.len = DeclaredLen(y.off)
        /\ y.off + DeclaredLen(y.off) <= DataLen
        /\ y.item.kind \in TypedKinds =>
              /\ y.item.ptr >= y.off
              /\ y.item.ptr + y.item.size <= DataLen
    /\ (it_last.called /\ ~it_last.some) =>
          \/ it_i + 1 >= DataLen
          \/ it_i + DeclaredLen(it_i) > DataLen

\* a table whose last record overruns: records before it were yielded, one of
\* them typed, and the iteration stopped on the overrunning record
IterStoppedAtOverrun ==
    /\ it_last.called /\ ~it_last.some
    /\ it_i + 1 < DataLen
    /\ it_i + DeclaredLen(it_i) > DataLen
    /\ \E y \in yielded : y.item.kind \in TypedKinds

-----------------------------------------------------------------------------
(* C7: dispatch on tag and declared length *)

\* the variant the record at data offset off must decode to
ExpectedKind(tag, len) ==
    IF tag = 0 /\ len = 8 THEN "LocalApic"
    ELSE IF tag = 1 /\ len = 12 THEN "IoApic"
    ELSE IF tag = 2 /\ len = 10 THEN "IntSrcOverride"
    ELSE IF tag = 11 /\ len >= 80 THEN "Gicc"
    ELSE IF tag = 12 /\ len >= 24 THEN "Gicd"
    ELSE "Unknown"

\* C7: every yielded record is the typed variant of its tag exactly when its
\* declared length fits (0x0/8, 0x1/12, 0x2/10 exactly, 0xB/at least 80,
\* 0xC/at least 24) and Unknown(tag) for every other (tag, length); the typed
\* variant refers to the payload right after the two header bytes; the cursor
\* after a yield is the record's offset plus its declared length, so every
\* record is decoded at offset 8 or right where an earlier record ended.
IterDispatch ==
    /\ \A y \in yielded :
        LET tag == ByteAt(madt_mem, y.off)
            len == ByteAt(madt_mem, y.off + 1)
        IN /\ y.item.kind = ExpectedKind(tag, len)
           /\ y.item.kind = "Unknown" => y.item.tag = tag
           /\ y.item.kind # "Unknown" => y.item.ptr = y.off + 2
           /\ \/ y.off = 8
              \/ \E z \in yielded : y.off = z.off + ByteAt(madt_mem, z.off + 1)
    /\ (it_last.called /\ it_last.some) =>
          it_i = it_last.off + ByteAt(madt_mem, it_last.off + 1)

\* both outcomes happened in one table: a known tag whose length does not fit
\* fell back to Unknown, and a record after it was decoded as a typed variant
IterDispatchedBoth ==
    /\ \E y \in yielded :
          /\ y.item.kind = "Unknown"
          /\ ByteAt(madt_mem, y.off) \in {0, 1, 2, 11, 12}
          /\ \E z \in yielded : z.off > y.off /\ z.item.kind \in TypedKinds
    /\ it_last.called /\ it_last.some

-----------------------------------------------------------------------------
(* x86 processor bring-up: arch::init(madt) *)

TRAMPOLINE == 32768
PAGE_SIZE == 4096
ICR_INIT == 17664
ICR_STARTUP == 17920

\* records of one MADT handed to the bring-up
MaxCpus == 3

\* u32 read of a packed little-endian field
ReadU32(m, o) ==
    ByteAt(m, o) + 256 * ByteAt(m, o + 1) + 65536 * ByteAt(m, o + 2)
        + 16777216 * ByteAt(m, o + 3)

\* the MadtLocalApic a LocalApic entry refers to: processor, id, flags
LocalApicAt(m, ptr) ==
    [processor |-> ByteAt(m, ptr), id |-> ByteAt(m, ptr + 1), flags |-> ReadU32(m, ptr + 2)]

\* what firmware may put into the table: local APICs (the primary's own,
\* enabled, disabled, online-capable only, processor id unlike the APIC id,
\* flags with reserved bits), an I/O APIC, a tag-0 record of a foreign length
FwRecord(tag, len, processor, id, flags) ==
    [tag |-> tag, len |-> len, processor |-> processor, id |-> id, flags |-> flags]

BringupRecords ==
    { FwRecord(0, 8, 0, 0, 1), FwRecord(0, 8, 1, 1, 1), FwRecord(0, 8, 2, 2, 0),
      FwRecord(0, 8, 7, 3, 257), FwRecord(0, 8, 4, 2, 2),
      FwRecord(1, 12, 9, 1, 1), FwRecord(0, 10, 6, 1, 1) }

ApicIds == {0, 1, 2, 3}
PrimaryIds == {0, 1}

\* the bytes of one firmware record: header, then processor, id, flags (LE), zeros
FwBytes(r) ==
    <<r.tag, r.len>> \o
    [k \in 1..(r.len - 2) |->
        IF k = 1 THEN r.processor
        ELSE IF k = 2 THEN r.id
        ELSE IF k = 3 THEN r.flags % 256
        ELSE IF k = 4 THEN (r.flags \div 256) % 256
        ELSE 0]

RECURSIVE FwOffset(_, _)
\* data offset of the k-th record of the layout rs
FwOffset(rs, k) == IF k = 1 THEN 8 ELSE FwOffset(rs, k - 1) + rs[k - 1].len

FwTable(rs) == MadtPrefix \o Concat([k \in DOMAIN rs |-> FwBytes(rs[k])])

\* ICR value: the low word, and the destination id shifted to bit 32 (x2APIC)
\* or bit 56 (xAPIC)
Icr(low, id, isx2) == [low |-> low, dest |-> id, shift |-> IF isx2 THEN 32 ELSE 56]

\* (TRAMPOLINE >> 12) & 0xFF
ApSegment == (TRAMPOLINE \div 4096) % 256

\* a linear-map address: phys + PHYS_OFFSET
Linear(phys) == [phys_offset_plus |-> phys]

\* base of the n-th order-4 frame the allocator hands out
FrameBase(n) == (n + 1) * (PAGE_SIZE * 16)

EmptyBlock ==
    [ready |-> 0, cpu_id |-> 0, page_table |-> "none", stack_start |-> Linear(0),
     stack_end |-> Linear(0), code |-> "none"]

\* the six u64 writes at TRAMPOLINE + 8 .. TRAMPOLINE + 48, in field order
ControlBlock(la, start) ==
    [ready |-> 0,
     cpu_id |-> la.processor,
     page_table |-> "page_table_physaddr",
     stack_start |-> start,
     stack_end |-> Linear(start.phys_offset_plus + PAGE_SIZE * 16),
     code |-> "kstart_ap"]

Ev(name, rec, arg) == [ev |-> name, rec |-> rec, arg |-> arg]

\* any flag bit taken for the enabled flag
IsEnabledAnyBit(flags) == flags # 0

\* ap_local_apic.flags & 1 == 1
IsEnabled(flags) == flags % 2 = 1

\* a wait on the ready flag that gives up
ReadyFlagSetOrTimeout(block) == TRUE

\* the load of the ready flag through an AtomicU8: the low byte of the u64
ReadyFlagSet(block) == block.ready % 256 # 0

\* the second wait left out
ApReadyNotAwaited(v) == TRUE

\* AP_READY.load(SeqCst)
ApReadySet(v) == v

\* the statement order of init(): the step that follows step p
StatementOrder(p) ==
    CASE p = "map" -> "copy"
      [] p = "copy" -> "loop"
      [] p = "loop" -> "next"
      [] p = "alloc" -> "write_cb"
      [] p = "write_cb" -> "clear_ap_ready"
      [] p = "clear_ap_ready" -> "init_ipi"
      [] p = "init_ipi" -> "startup_ipi"
      [] p = "startup_ipi" -> "wait_ready"
      [] p = "wait_ready" -> "wait_ap_ready"
      [] p = "wait_ap_ready" -> "invalidate"
      [] p = "invalidate" -> "next"
      [] p = "unmap" -> "done"

\* the IPIs issued before the control block is written
PcAfterIpiFirst(p) ==
    CASE p = "alloc" -> "init_ipi"
      [] p = "init_ipi" -> "startup_ipi"
      [] p = "startup_ipi" -> "write_cb"
      [] p = "write_cb" -> "clear_ap_ready"
      [] p = "clear_ap_ready" -> "wait_ready"
      [] OTHER -> StatementOrder(p)

\* the unmap pulled into the loop body: torn down after the first core
PcAfterUnmapInLoop(p) == IF p = "invalidate" THEN "unmap" ELSE StatementOrder(p)

PcAfter(p) == StatementOrder(p)

CurApic == LocalApicAt(madt_mem, cur + 2)

\* cfg!(feature = "multi_core") is off: init() returns after reading the APIC id
ReturnSingleCore ==
    /\ pc = "map"
    /\ ~multi_core
    /\ pc' = "done"
    /\ UNCHANGED <<rsdpVars, extVars, madtVars, iterVars, firmware, me, x2, multi_core, cur, stack_start,
                   frames, cb, AP_READY, CPU_COUNT, trampoline_mapped,
                   trampoline_image, log, ap_state, ap_boot>>

\* KernelMapper::lock().get_mut().expect(..).map_phys(..).expect(..), flush
MapTrampoline ==
    /\ pc = "map"
    /\ multi_core
    /\ trampoline_mapped' = TRUE
    /\ log' = Append(log, Ev("map", 0, 0))
    /\ pc' = PcAfter("map")
    /\ UNCHANGED <<rsdpVars, extVars, madtVars, iterVars, firmware, me, x2, multi_core, cur, stack_start,
                   frames, cb, AP_READY, CPU_COUNT, trampoline_image, ap_state, ap_boot>>

\* the mapper is locked recursively or map_phys fails: expect() panics
MapTrampolinePanics ==
    /\ pc = "map"
    /\ multi_core
    /\ pc' = "panic"
    /\ UNCHANGED <<rsdpVars, extVars, madtVars, iterVars, firmware, me, x2, multi_core, cur, stack_start,
                   frames, cb, AP_READY, CPU_COUNT, trampoline_mapped,
                   trampoline_image, log, ap_state, ap_boot>>

\* copy_nonoverlapping(TRAMPOLINE_DATA, TRAMPOLINE, len)
CopyTrampoline ==
    /\ pc = "copy"
    /\ trampoline_image' = TRUE
    /\ log' = Append(log, Ev("copy", 0, 0))
    /\ pc' = PcAfter("copy")
    /\ UNCHANGED <<rsdpVars, extVars, madtVars, iterVars, firmware, me, x2, multi_core, cur, stack_start,
                   frames, cb, AP_READY, CPU_COUNT, trampoline_mapped, ap_state, ap_boot>>

\* for madt_entry in madt.iter(): the iterator is created
LoopEnter ==
    /\ pc = "loop"
    /\ it_i' = 8
    /\ pc' = PcAfter("loop")
    /\ UNCHANGED <<rsdpVars, extVars, madtVars, madt, it_last, reads, yielded, firmware, me, x2, multi_core,
                   cur, stack_start, frames, cb, AP_READY, CPU_COUNT, trampoline_mapped,
                   trampoline_image, log, ap_state, ap_boot>>

\* the record is a local APIC other than the primary's with the enabled flag set
Eligible(item, myid) ==
    /\ item.kind = "LocalApic"
    /\ LocalApicAt(madt_mem, item.ptr).id # myid
    /\ IsEnabled(LocalApicAt(madt_mem, item.ptr).flags)

\* one turn of the for loop up to the allocation: next(), the match, the
\* comparison with me, the enabled flag, CPU_COUNT.fetch_add(1)
NextEntry ==
    /\ pc = "next"
    /\ LET r == MadtIterNext(madt_mem, DataLen, it_i)
       IN /\ IterAdvance(r)
          /\ IF ~r.some
                THEN /\ pc' = "unmap"
                     /\ UNCHANGED <<cur, CPU_COUNT>>
             ELSE IF Eligible(r.item, me)
                THEN /\ pc' = "alloc"
                     /\ cur' = it_i
                     /\ CPU_COUNT' = CPU_COUNT + 1
             ELSE /\ pc' = "next"
                  /\ UNCHANGED <<cur, CPU_COUNT>>
    /\ UNCHANGED <<rsdpVars, extVars, madtVars, madt, firmware, me, x2, multi_core, stack_start, frames, cb,
                   AP_READY, trampoline_mapped, trampoline_image, log, ap_state, ap_boot>>

\* allocate_p2frame(4).expect(..).base().data() + PHYS_OFFSET
AllocStack ==
    /\ pc = "alloc"
    /\ frames' = frames + 1
    /\ stack_start' = Linear(FrameBase(frames))
    /\ log' = Append(log, Ev("alloc", cur, Linear(FrameBase(frames))))
    /\ pc' = PcAfter("alloc")
    /\ UNCHANGED <<rsdpVars, extVars, madtVars, iterVars, firmware, me, x2, multi_core, cur, cb, AP_READY,
                   CPU_COUNT, trampoline_mapped, trampoline_image, ap_state, ap_boot>>

\* allocate_p2frame returns None: expect("no more frames for ACPI stack") panics
AllocStackPanics ==
    /\ pc = "alloc"
    /\ pc' = "panic"
    /\ UNCHANGED <<rsdpVars, extVars, madtVars, iterVars, firmware, me, x2, multi_core, cur, stack_start,
                   frames, cb, AP_READY, CPU_COUNT, trampoline_mapped,
                   trampoline_image, log, ap_state, ap_boot>>

\* ap_ready.write(0) .. ap_code.write(kstart_ap)
WriteControlBlock ==
    /\ pc = "write_cb"
    /\ cb' = ControlBlock(CurApic, stack_start)
    /\ log' = Append(log, Ev("write_cb", cur, ControlBlock(CurApic, stack_start)))
    /\ pc' = PcAfter("write_cb")
    /\ UNCHANGED <<rsdpVars, extVars, madtVars, iterVars, firmware, me, x2, multi_core, cur, stack_start,
                   frames, AP_READY, CPU_COUNT, trampoline_mapped, trampoline_image,
                   ap_state, ap_boot>>

\* AP_READY.store(false, SeqCst)
ClearApReady ==
    /\ pc = "clear_ap_ready"
    /\ AP_READY' = FALSE
    /\ log' = Append(log, Ev("clear_ap_ready", cur, 0))
    /\ pc' = PcAfter("clear_ap_ready")
    /\ UNCHANGED <<rsdpVars, extVars, madtVars, iterVars, firmware, me, x2, multi_core, cur, stack_start,
                   frames, cb, CPU_COUNT, trampoline_mapped, trampoline_image,
                   ap_state, ap_boot>>

\* the addressed core takes the INIT: it is reset and waits for a STARTUP
DeliverInit(st, icr) ==
    IF icr.dest \in DOMAIN st THEN [st EXCEPT ![icr.dest] = "wait_sipi"] ELSE st

\* a STARTUP that is lost on the way
DeliverStartupLost(st, icr) == st

\* the addressed core takes the STARTUP: it begins to run the trampoline page
DeliverStartup(st, icr) ==
    IF icr.dest \in DOMAIN st /\ st[icr.dest] = "wait_sipi"
        THEN [st EXCEPT ![icr.dest] = "trampoline"]
        ELSE st

\* a set_icr as it is logged: the value, and the control block and AP_READY
\* as they stand when it is written
Sent(icr) == [icr |-> icr, cb |-> cb, ap_ready |-> AP_READY]

\* local_apic.set_icr(0x4500 | id << 32 or 56)
SendInit ==
    /\ pc = "init_ipi"
    /\ LET icr == Icr(ICR_INIT, CurApic.id, x2)
       IN /\ log' = Append(log, Ev("init_ipi", cur, Sent(icr)))
          /\ ap_state' = DeliverInit(ap_state, icr)
    /\ pc' = PcAfter("init_ipi")
    /\ UNCHANGED <<rsdpVars, extVars, madtVars, iterVars, firmware, me, x2, multi_core, cur, stack_start,
                   frames, cb, AP_READY, CPU_COUNT, trampoline_mapped,
                   trampoline_image, ap_boot>>

\* local_apic.set_icr(0x4600 | ap_segment | id << 32 or 56)
SendStartup ==
    /\ pc = "startup_ipi"
    /\ LET icr == Icr(ICR_STARTUP + ApSegment, CurApic.id, x2)
       IN /\ log' = Append(log, Ev("startup_ipi", cur, Sent(icr)))
          /\ ap_state' = DeliverStartup(ap_state, icr)
    /\ pc' = PcAfter("startup_ipi")
    /\ UNCHANGED <<rsdpVars, extVars, madtVars, iterVars, firmware, me, x2, multi_core, cur, stack_start,
                   frames, cb, AP_READY, CPU_COUNT, trampoline_mapped,
                   trampoline_image, ap_boot>>

\* while ap_ready == 0 { pause } : the loop is left once the flag is seen set
WaitReady ==
    /\ pc = "wait_ready"
    /\ ReadyFlagSet(cb)
    /\ log' = Append(log, Ev("ready_seen", cur, cb.ready))
    /\ pc' = PcAfter("wait_ready")
    /\ UNCHANGED <<rsdpVars, extVars, madtVars, iterVars, firmware, me, x2, multi_core, cur, stack_start,
                   frames, cb, AP_READY, CPU_COUNT, trampoline_mapped,
                   trampoline_image, ap_state, ap_boot>>

\* while !AP_READY { pause } : the loop is left once AP_READY is seen true
WaitApReady ==
    /\ pc = "wait_ap_ready"
    /\ ApReadySet(AP_READY)
    /\ log' = Append(log, Ev("ap_ready_seen", cur, AP_READY))
    /\ pc' = PcAfter("wait_ap_ready")
    /\ UNCHANGED <<rsdpVars, extVars, madtVars, iterVars, firmware, me, x2, multi_core, cur, stack_start,
                   frames, cb, AP_READY, CPU_COUNT, trampoline_mapped,
                   trampoline_image, ap_state, ap_boot>>

\* RmmA::invalidate_all()
InvalidateAll ==
    /\ pc = "invalidate"
    /\ log' = Append(log, Ev("invalidate", cur, 0))
    /\ pc' = PcAfter("invalidate")
    /\ UNCHANGED <<rsdpVars, extVars, madtVars, iterVars, firmware, me, x2, multi_core, cur, stack_start,
                   frames, cb, AP_READY, CPU_COUNT, trampoline_mapped,
                   trampoline_image, ap_state, ap_boot>>

\* KernelMapper::lock().get_mut().expect(..).unmap_phys(..).expect(..), flush
UnmapTrampoline ==
    /\ pc = "unmap"
    /\ trampoline_mapped' = FALSE
    /\ log' = Append(log, Ev("unmap", 0, 0))
    /\ pc' = PcAfter("unmap")
    /\ UNCHANGED <<rsdpVars, extVars, madtVars, iterVars, firmware, me, x2, multi_core, cur, stack_start,
                   frames, cb, AP_READY, CPU_COUNT, trampoline_image, ap_state, ap_boot>>

\* the mapper is locked recursively or unmap_phys fails: expect() panics
UnmapTrampolinePanics ==
    /\ pc = "unmap"
    /\ pc' = "panic"
    /\ UNCHANGED <<rsdpVars, extVars, madtVars, iterVars, firmware, me, x2, multi_core, cur, stack_start,
                   frames, cb, AP_READY, CPU_COUNT, trampoline_mapped,
                   trampoline_image, log, ap_state, ap_boot>>

(* the secondary cores *)

\* the trampoline has loaded the control block and sets its ready flag
ApSetReady ==
    /\ \E id \in DOMAIN ap_state :
        /\ ap_state[id] = "trampoline"
        /\ ap_boot' = ap_boot \cup {[id |-> id, cb |-> cb]}
        /\ cb' = [cb EXCEPT !.ready = 1]
        /\ ap_state' = [ap_state EXCEPT ![id] = "kernel"]
    /\ UNCHANGED <<rsdpVars, extVars, madtVars, iterVars, firmware, me, x2, multi_core, pc, cur, stack_start,
                   frames, AP_READY, CPU_COUNT, trampoline_mapped, trampoline_image, log>>

\* kstart_ap has set the core up: AP_READY.store(true)
ApKernelReady ==
    /\ \E id \in DOMAIN ap_state :
        /\ ap_state[id] = "kernel"
        /\ AP_READY' = TRUE
        /\ ap_state' = [ap_state EXCEPT ![id] = "up"]
    /\ UNCHANGED <<rsdpVars, extVars, madtVars, iterVars, firmware, me, x2, multi_core, pc, cur, stack_start,
                   frames, cb, CPU_COUNT, trampoline_mapped, trampoline_image, log,
                   ap_boot>>

\* a started core hangs before it acknowledges
ApStall ==
    /\ \E id \in DOMAIN ap_state :
        /\ ap_state[id] \in {"trampoline", "kernel"}
        /\ ap_state' = [ap_state EXCEPT ![id] = "stalled"]
    /\ UNCHANGED <<rsdpVars, extVars, madtVars, iterVars, firmware, me, x2, multi_core, pc, cur, stack_start,
                   frames, cb, AP_READY, CPU_COUNT, trampoline_mapped,
                   trampoline_image, log, ap_boot>>

Init ==
    /\ firmware \in SeqsUpTo(BringupRecords, MaxCpus)
    /\ madt_mem = FwTable(firmware)
    /\ sdt_length = SDT_SIZE + Len(madt_mem)
    /\ sdt_signature = "APIC"
    /\ madt = "some"
    /\ it_i = -1
    /\ it_last = NoCall
    /\ reads = {}
    /\ yielded = {}
    /\ me \in PrimaryIds
    /\ x2 \in BOOLEAN
    /\ multi_core \in BOOLEAN
    /\ pc = "map"
    /\ cur = 0
    /\ stack_start = Linear(0)
    /\ frames = 0
    /\ cb = EmptyBlock
    /\ AP_READY = FALSE
    /\ CPU_COUNT = 1
    /\ trampoline_mapped = FALSE
    /\ trampoline_image = FALSE
    /\ log = <<>>
    /\ ap_state = [id \in ApicIds \ {me} |-> "halted"]
    /\ ap_boot = {}
    /\ RsdpOff
    /\ ExtOff

Next ==
    \/ ReturnSingleCore
    \/ MapTrampoline
    \/ MapTrampolinePanics
    \/ CopyTrampoline
    \/ LoopEnter
    \/ NextEntry
    \/ AllocStack
    \/ AllocStackPanics
    \/ WriteControlBlock
    \/ ClearApReady
    \/ SendInit
    \/ SendStartup
    \/ WaitReady
    \/ WaitApReady
    \/ InvalidateAll
    \/ UnmapTrampoline
    \/ UnmapTrampolinePanics
    \/ ApSetReady
    \/ ApKernelReady
    \/ ApStall

Spec == Init /\ [][Next]_vars

-----------------------------------------------------------------------------
(* The bring-up seen from the table firmware wrote *)

\* firmware's records with their data offsets, in table order
FwLaidOut == [k \in DOMAIN firmware |-> [off |-> FwOffset(firmware, k), r |-> firmware[k]]]

\* a local-APIC record of another core than the primary, enabled (bit 0 of flags)
FwEligible(x) == x.r.tag = 0 /\ x.r.len = 8 /\ x.r.id # me /\ x.r.flags % 2 = 1

EligibleInOrder == SelectSeq(FwLaidOut, FwEligible)
EligibleOffsets == {EligibleInOrder[k].off : k \in DOMAIN EligibleInOrder}
FwAt(off) == CHOOSE x \in {FwLaidOut[k] : k \in DOMAIN FwLaidOut} : x.off = off

IsWrite(e) == e.ev = "write_cb"
IsIpi(e) == e.ev \in {"init_ipi", "startup_ipi"}
IsUnmap(e) == e.ev = "unmap"
IsMap(e) == e.ev = "map"
IsCopy(e) == e.ev = "copy"
PerCore == {"alloc", "write_cb", "clear_ap_ready", "init_ipi", "startup_ipi",
            "ready_seen", "ap_ready_seen", "invalidate"}

\* the record of log position q has been acknowledged before position p: both
\* flags were observed set
AckedBetween(q, p) ==
    /\ \E a \in (q + 1)..(p - 1) :
          log[a].ev = "ready_seen" /\ log[a].rec = log[q].rec /\ log[a].arg % 256 # 0
    /\ \E b \in (q + 1)..(p - 1) :
          log[b].ev = "ap_ready_seen" /\ log[b].rec = log[q].rec /\ log[b].arg = TRUE

\* records that were sent an IPI and are not acknowledged yet
Unacknowledged ==
    { log[q].rec : q \in { q \in DOMAIN log : IsIpi(log[q]) /\ ~AckedBetween(q, Len(log) + 1) } }

\* cores between their INIT and the end of their start-up
CoresInFlight ==
    { id \in DOMAIN ap_state : ap_state[id] \in {"wait_sipi", "trampoline", "kernel", "stalled"} }

\* C1: secondary cores are started one at a time in the order of their
\* local-APIC records in the MADT: the control block is written for the
\* eligible records in table order; it is rewritten for the next record only
\* after the primary has observed the ready flag set and AP_READY true for the
\* core started before; at most one record is "IPIs sent, not acknowledged",
\* and at most one core is between its INIT and the end of its start-up.
StartedOneAtATime ==
    /\ LET W == SelectSeq(log, IsWrite)
       IN /\ Len(W) <= Len(EligibleInOrder)
          /\ \A k \in DOMAIN W : W[k].rec = EligibleInOrder[k].off
    /\ \A p \in DOMAIN log : IsWrite(log[p]) =>
          \A q \in 1..(p - 1) : IsIpi(log[q]) => AckedBetween(q, p)
    /\ Cardinality(Unacknowledged) <= 1
    /\ Cardinality(CoresInFlight) <= 1

\* two cores were started in turn and the second handshake is under way
SecondCoreStarting ==
    /\ Len(SelectSeq(log, IsWrite)) = 2
    /\ Cardinality(Unacknowledged) = 1
    /\ \E id \in DOMAIN ap_state : ap_state[id] = "up"
    /\ \E id \in DOMAIN ap_state : ap_state[id] = "kernel"

-----------------------------------------------------------------------------
(* C2: who is started *)

EventsOf(off) == SelectSeq(log, LAMBDA e : e.ev \in PerCore /\ e.rec = off)
NamesOf(off) == [k \in DOMAIN EventsOf(off) |-> EventsOf(off)[k].ev]
CountOf(name, off) == Len(SelectSeq(log, LAMBDA e : e.ev = name /\ e.rec = off))

\* C2: a stack allocation, a control-block write and an INIT or STARTUP IPI
\* happen only for a local-APIC record (tag 0, length 8) whose id differs from
\* the primary's and whose flags have bit 0 set, and the IPIs are addressed
\* to that record's id; when init() has torn the trampoline down, every such
\* record was sent exactly one INIT and one STARTUP, one stack was allocated
\* for each, and CPU_COUNT grew by one for each.
IpisToEligibleOnly ==
    /\ \A p \in DOMAIN log : log[p].ev \in PerCore =>
          /\ log[p].rec \in EligibleOffsets
          /\ log[p].ev = "init_ipi" =>
                log[p].arg.icr = [low |-> 17664, dest |-> FwAt(log[p].rec).r.id,
                                  shift |-> IF x2 THEN 32 ELSE 56]
          /\ log[p].ev = "startup_ipi" =>
                log[p].arg.icr = [low |-> 17928, dest |-> FwAt(log[p].rec).r.id,
                                  shift |-> IF x2 THEN 32 ELSE 56]
    /\ frames <= Cardinality(EligibleOffsets)
    /\ CPU_COUNT <= 1 + Cardinality(EligibleOffsets)
    /\ cb # EmptyBlock => \E p \in DOMAIN log : IsWrite(log[p])
    /\ (pc = "done" /\ multi_core) =>
          /\ \A off \in EligibleOffsets :
                CountOf("init_ipi", off) = 1 /\ CountOf("startup_ipi", off) = 1
          /\ frames = Cardinality(EligibleOffsets)
          /\ CPU_COUNT = 1 + Cardinality(EligibleOffsets)

\* init() has finished on a table that holds an eligible record, a local APIC
\* that is not enabled, and a record that is no local APIC: only the first
\* was started
OnlyEligibleStarted ==
    /\ pc = "done"
    /\ \E p \in DOMAIN log : log[p].ev = "startup_ipi"
    /\ \E k \in DOMAIN firmware :
          firmware[k].tag = 0 /\ firmware[k].len = 8 /\ firmware[k].id # me
              /\ firmware[k].flags % 2 = 0
    /\ \E k \in DOMAIN firmware : firmware[k].tag # 0 \/ firmware[k].len # 8

-----------------------------------------------------------------------------
(* C3: the order of the primary's steps *)

HandshakeOrder ==
    <<"alloc", "write_cb", "clear_ap_ready", "init_ipi", "startup_ipi",
      "ready_seen", "ap_ready_seen", "invalidate">>

\* C3: for every started core the primary's steps follow each other in this
\* order with nothing in between: stack allocation, the six control-block
\* writes (ready flag 0), AP_READY cleared, INIT IPI, STARTUP IPI, ready flag
\* observed set, AP_READY observed true, invalidate_all, and only then the
\* next record; when either IPI is issued the control block holds the
\* values written for this record, its ready flag is still 0 and AP_READY is
\* false.
HandshakeInOrder ==
    /\ \A off \in EligibleOffsets :
          /\ Len(NamesOf(off)) <= Len(HandshakeOrder)
          /\ NamesOf(off) = SubSeq(HandshakeOrder, 1, Len(NamesOf(off)))
    /\ \A p \in DOMAIN log : (p > 1 /\ log[p].ev \in PerCore) =>
          \/ log[p].ev = "alloc" /\ log[p - 1].ev \in {"copy", "invalidate"}
          \/ log[p].ev # "alloc" /\ log[p - 1].rec = log[p].rec
    /\ \A p \in DOMAIN log :
          /\ IsIpi(log[p]) =>
                \E w \in 1..(p - 1) :
                    /\ IsWrite(log[w]) /\ log[w].rec = log[p].rec
                    /\ log[p].arg.cb = log[w].arg
                    /\ log[p].arg.cb.ready = 0
                    /\ log[p].arg.cb.cpu_id = FwAt(log[p].rec).r.processor
                    /\ \E a \in 1..(w - 1) :
                          /\ log[a].ev = "alloc" /\ log[a].rec = log[p].rec
                          /\ log[p].arg.cb.stack_start = log[a].arg
                    /\ log[p].arg.ap_ready = FALSE
          /\ log[p].ev = "ready_seen" => log[p].arg % 256 # 0
          /\ log[p].ev = "ap_ready_seen" => log[p].arg = TRUE

\* a second core has gone through the whole handshake after the first
SecondHandshakeDone ==
    /\ Len(SelectSeq(log, LAMBDA e : e.ev = "invalidate")) = 2
    /\ pc = "next"

-----------------------------------------------------------------------------
(* C4: the trampoline page *)

CountEv(name) == Len(SelectSeq(log, LAMBDA e : e.ev = name))

\* C4: the trampoline page is mapped once and the image copied once, before
\* any record is read and any core handled; it is unmapped at most once, and
\* only when the iterator has returned every record of the MADT and every
\* eligible core has acknowledged; the unmap is the last thing init() does:
\* no control-block write and no IPI follows it and no core is left running
\* the trampoline; a finished init() has mapped, copied and unmapped exactly
\* once.
TrampolineOnce ==
    /\ CountEv("map") <= 1 /\ CountEv("copy") <= 1 /\ CountEv("unmap") <= 1
    /\ log # <<>> => IsMap(log[1])
    /\ Len(log) > 1 => IsCopy(log[2])
    /\ (it_i >= 0 \/ yielded # {}) => (CountEv("map") = 1 /\ CountEv("copy") = 1 /\ trampoline_image)
    /\ trampoline_mapped = (CountEv("map") = 1 /\ CountEv("unmap") = 0)
    /\ CountEv("unmap") = 1 =>
          /\ IsUnmap(log[Len(log)])
          /\ pc = "done"
          /\ it_last = [called |-> TRUE, some |-> FALSE]
          /\ {y.off : y \in yielded} = {FwLaidOut[k].off : k \in DOMAIN FwLaidOut}
          /\ \A off \in EligibleOffsets : NamesOf(off) = HandshakeOrder
          /\ \A id \in DOMAIN ap_state : ap_state[id] \in {"halted", "up"}
    /\ (pc = "done" /\ multi_core) =>
          CountEv("map") = 1 /\ CountEv("copy") = 1 /\ CountEv("unmap") = 1

\* the page was unmapped after two cores were started and a third record skipped
TornDownAfterAll ==
    /\ pc = "done"
    /\ ~trampoline_mapped
    /\ Len(firmware) = 3
    /\ Cardinality(EligibleOffsets) = 2
    /\ CountEv("unmap") = 1

-----------------------------------------------------------------------------
(* C5: a core that never acknowledges *)

Stalled == { id \in DOMAIN ap_state : ap_state[id] = "stalled" }

\* nothing the primary does: its position, its log, the page, the iterator
PrimaryHalts ==
    /\ pc' = pc /\ log' = log /\ it_i' = it_i
    /\ trampoline_mapped' = trampoline_mapped /\ frames' = frames

\* C5: while the ready flag is 0 the primary stays in the first wait, and
\* while AP_READY is false it stays in the second: no step leaves the wait on
\* a timeout, a retry or a cancellation. Once the started core has stalled
\* the primary is in one of the two waits for that very core for good: AP_READY
\* stays false, no record after it is sent an IPI or given a stack, and the
\* trampoline page stays mapped.
StallHaltsBringup ==
    /\ [][(pc = "wait_ready" /\ cb.ready % 256 = 0) => PrimaryHalts]_vars
    /\ [][(pc = "wait_ap_ready" /\ ~AP_READY) => PrimaryHalts]_vars
    /\ [](\A id \in Stalled :
            /\ pc \in {"wait_ready", "wait_ap_ready"}
            /\ CurApic.id = id
            /\ cb.ready % 256 = 0 => pc = "wait_ready"
            /\ ~AP_READY
            /\ trampoline_mapped
            /\ CountEv("unmap") = 0
            /\ \A p \in DOMAIN log : log[p].ev \in PerCore => log[p].rec <= cur
            /\ Cardinality(Unacknowledged) = 1)
    /\ [][Stalled \subseteq Stalled']_vars

\* the first core stalled before it set the ready flag while another eligible
\* record is still waiting in the table
StalledWithCoresLeft ==
    /\ Stalled # {}
    /\ cb.ready = 0
    /\ pc = "wait_ready"
    /\ \E off \in EligibleOffsets : off > cur

\* ------------------------------------------------------------------------
\* Root pointer locator (acpi/rsdp.rs)
\* ------------------------------------------------------------------------

START_ADDR == 917504        \* 0xE_0000
END_ADDR == 1048575         \* 0xF_FFFF
RSDP_SIZE == 36             \* size of the packed struct RSDP
CHECKSUM_LEN == 20          \* bytes covered by validate_checksum
SCAN_STEP == 16             \* step_by(16)

\* b"RSD PTR "
RSDP_SIGNATURE == <<82, 83, 68, 32, 80, 84, 82, 32>>

\* the byte of physical memory m at address a
RByte(m, a) == IF a \in DOMAIN m THEN m[a] ELSE 0

\* acc.wrapping_add(b) on u8
WrappingAdd(acc, b) == (acc + b) % 256

\* bytes.iter().fold(0u8, |acc, &b| acc.wrapping_add(b)) over the first n bytes at a
RECURSIVE FoldBytes(_, _, _)
FoldBytes(m, a, n) ==
    IF n = 0 THEN 0 ELSE WrappingAdd(FoldBytes(m, a, n - 1), RByte(m, a + n - 1))

\* a validator that sums the whole 36-byte structure
ValidateChecksumWholeStruct(m, a) == FoldBytes(m, a, RSDP_SIZE) = 0

\* RSDP::validate_checksum of the descriptor at address a
ValidateChecksum(m, a) == FoldBytes(m, a, CHECKSUM_LEN) = 0

\* rsdp.signature == *b"RSD PTR "
SignatureMatches(m, a) ==
    \A k \in 1..Len(RSDP_SIGNATURE) : RByte(m, a + k - 1) = RSDP_SIGNATURE[k]

\* a predicate that accepts on the signature alone
CandidateMatchesSignatureOnly(m, a) == SignatureMatches(m, a)

\* the predicate of find() in search()
CandidateMatches(m, a) == SignatureMatches(m, a) /\ ValidateChecksum(m, a)

\* Frame::containing(PhysicalAddress::new(addr))
FrameContaining(addr) == addr \div PAGE_SIZE

FirstFrame == FrameContaining(START_ADDR)
LastFrame == FrameContaining(END_ADDR)

NoRsdp == [some |-> FALSE, addr |-> 0]
SomeRsdp(a) == [some |-> TRUE, addr |-> a]

\* ---- memory images the firmware can leave behind

\* most descriptors written into one image
MaxPlaced == 2

\* an address below the scanned window, where a boot loader may keep a copy
BelowWindow == START_ADDR - PAGE_SIZE

\* the last 16-byte-aligned address of the window
LastCandidate == END_ADDR - ((END_ADDR - START_ADDR) % SCAN_STEP)

\* a signature that differs from the root signature in its last byte
OtherSignature == <<82, 83, 68, 32, 80, 84, 82, 95>>

\* _oemid, revision, rsdt_address, _length, xsdt_address, _extended_checksum, _reserved
DescriptorTail ==
    <<66, 79, 67, 72, 83, 32>> \o <<2>> \o <<0, 16, 254, 7>> \o <<36, 0, 0, 0>>
        \o <<64, 16, 254, 7, 0, 0, 0, 0>> \o <<91>> \o <<0, 0, 0>>

RECURSIVE SumSeq(_)
SumSeq(q) == IF q = <<>> THEN 0 ELSE Head(q) + SumSeq(Tail(q))

\* the checksum byte that makes the first 20 bytes of sig \o <<c>> \o tail sum to 0 mod 256
ChecksumByteFor(sig, tail) ==
    LET others == SumSeq(sig) + SumSeq(SubSeq(tail, 1, CHECKSUM_LEN - Len(sig) - 1))
    IN (256 - (others % 256)) % 256

\* the 36 bytes of a descriptor of the given kind
DescriptorBytes(kind) ==
    CASE kind = "valid" ->
            RSDP_SIGNATURE \o <<ChecksumByteFor(RSDP_SIGNATURE, DescriptorTail)>>
                \o DescriptorTail
      [] kind = "badsum" ->
            RSDP_SIGNATURE
                \o <<(ChecksumByteFor(RSDP_SIGNATURE, DescriptorTail) + 1) % 256>>
                \o DescriptorTail
      [] kind = "badsig" ->
            OtherSignature \o <<ChecksumByteFor(OtherSignature, DescriptorTail)>>
                \o DescriptorTail

DescriptorKinds == {"valid", "badsum", "badsig"}

\* where the firmware may put a descriptor: outside the window, at its first
\* candidate, at an unaligned address, at its last candidate
PlaceAddrs == {BelowWindow, START_ADDR, START_ADDR + 40, LastCandidate}

\* descriptor bytes written at address a
Placed(a, kind) ==
    [x \in a..(a + RSDP_SIZE - 1) |-> DescriptorBytes(kind)[x - a + 1]]

\* the memory holding the descriptors of ps, a set of <<address, kind>>
RECURSIVE ImageOf(_)
ImageOf(ps) ==
    IF ps = {} THEN <<>>
    ELSE LET p == CHOOSE p \in ps : \A q \in ps : p[1] <= q[1]
         IN Placed(p[1], p[2]) @@ ImageOf(ps \ {p})

Placements ==
    {ps \in SUBSET (PlaceAddrs \X DescriptorKinds) :
        /\ Cardinality(ps) <= MaxPlaced
        /\ \A p, q \in ps : p[1] = q[1] => p = q}

RsdpImages == {ImageOf(ps) : ps \in Placements}

\* what the boot loader may hand over: nothing, or a pointer to its copy
SuppliedChoices == {[some |-> FALSE, ptr |-> 0], [some |-> TRUE, ptr |-> BelowWindow]}

\* ---- validate_checksum applied to a descriptor, one byte changed, then repaired

locatorVars == <<supplied, rpc, frame_i, mapped_frames, scan_addr, read_hi, rsdp>>

\* get_rsdp is not running
LocatorOff ==
    /\ supplied = [some |-> FALSE, ptr |-> 0]
    /\ rpc = "off"
    /\ frame_i = 0
    /\ mapped_frames = {}
    /\ scan_addr = 0
    /\ read_hi = 0
    /\ rsdp = NoRsdp

\* the checksum round trip is not running
ChecksumOff ==
    /\ ck_phase = "off"
    /\ ck_addr = 0
    /\ ck_flip = -1
    /\ ck_ok = FALSE

\* the first 20 bytes at a, summed without wrapping
PlainSum(m, a) == SumSeq([k \in 1..CHECKSUM_LEN |-> RByte(m, a + k - 1)])

\* memory m with byte v written at address a
WriteByte(m, a, v) == (a :> v) @@ m

\* a descriptor whose checksum byte was computed for it is validated
ChecksumInit ==
    /\ \E a \in {BelowWindow, START_ADDR}, kind \in {"valid", "badsig"} :
        /\ pmem = Placed(a, kind)
        /\ ck_addr = a
        /\ ck_ok = ValidateChecksum(Placed(a, kind), a)
    /\ ck_phase = "valid"
    /\ ck_flip = -1
    /\ LocatorOff
    /\ madt_mem = <<>> /\ sdt_length = 0 /\ sdt_signature = "none"
    /\ madt = "unset" /\ it_i = -1 /\ it_last = NoCall /\ reads = {} /\ yielded = {}
    /\ BringupOff
    /\ ExtOff

\* one of the 20 bytes takes another value, and the descriptor is validated again
FlipByte ==
    /\ ck_phase = "valid"
    /\ \E k \in 0..(CHECKSUM_LEN - 1), v \in 0..255 :
        /\ v # RByte(pmem, ck_addr + k)
        /\ pmem' = WriteByte(pmem, ck_addr + k, v)
        /\ ck_flip' = k
        /\ ck_ok' = ValidateChecksum(WriteByte(pmem, ck_addr + k, v), ck_addr)
    /\ ck_phase' = "flipped"
    /\ UNCHANGED <<ck_addr, locatorVars, extVars, madtVars, iterVars, bringupVars>>

\* the checksum byte is set to the value that brings the sum to 0 mod 256
RepairChecksum ==
    /\ ck_phase = "flipped"
    /\ LET others == PlainSum(pmem, ck_addr) - RByte(pmem, ck_addr + 8)
           fixed == WriteByte(pmem, ck_addr + 8, (256 - (others % 256)) % 256)
       IN /\ pmem' = fixed
          /\ ck_ok' = ValidateChecksum(fixed, ck_addr)
    /\ ck_phase' = "repaired"
    /\ UNCHANGED <<ck_addr, ck_flip, locatorVars, extVars, madtVars, iterVars, bringupVars>>

ChecksumNext == FlipByte \/ RepairChecksum

SpecChecksum == ChecksumInit /\ [][ChecksumNext]_vars

\* C10: validate_checksum accepts a descriptor exactly when its first 20 bytes
\* sum to 0 mod 256; a descriptor that validates stops validating when any one
\* of those bytes changes, and validates again once the checksum byte at
\* offset 8 is set to the value that brings the sum back to 0 mod 256.
ChecksumRoundTrip ==
    ck_phase # "off" =>
        /\ ck_ok = (PlainSum(pmem, ck_addr) % 256 = 0)
        /\ ck_phase = "valid" => ck_ok
        /\ ck_phase = "flipped" => ~ck_ok
        /\ ck_phase = "repaired" => ck_ok

\* the last covered byte was changed and the checksum byte repaired
ChecksumRepaired ==
    /\ ck_phase = "repaired"
    /\ ck_flip = CHECKSUM_LEN - 1
    /\ ck_ok
    /\ RByte(pmem, ck_addr + 8) # DescriptorBytes("valid")[9]

\* ---- RSDP::get_rsdp

checksumVars == <<ck_phase, ck_addr, ck_flip, ck_ok>>

\* get_rsdp is called on a memory image, with or without a supplied pointer
RsdpInit ==
    /\ pmem \in RsdpImages
    /\ supplied \in SuppliedChoices
    /\ rpc = "get"
    /\ frame_i = 0
    /\ mapped_frames = {}
    /\ scan_addr = 0
    /\ read_hi = 0
    /\ rsdp = NoRsdp
    /\ ChecksumOff
    /\ madt_mem = <<>> /\ sdt_length = 0 /\ sdt_signature = "none"
    /\ madt = "unset" /\ it_i = -1 /\ it_last = NoCall /\ reads = {} /\ yielded = {}
    /\ BringupOff
    /\ ExtOff

\* already_supplied_rsdp.and_then(get_already_supplied_rsdp): the supplied
\* descriptor when there is one and its checksum is valid
GetAlreadySuppliedRsdp(m, given) ==
    IF given.some /\ ValidateChecksum(m, given.ptr) THEN SomeRsdp(given.ptr) ELSE NoRsdp

\* get_rsdp: .or_else(|| get_rsdp_by_searching(mapper)) runs when the first
\* part produced nothing
GetRsdp ==
    /\ rpc = "get"
    /\ IF GetAlreadySuppliedRsdp(pmem, supplied).some
       THEN /\ rsdp' = GetAlreadySuppliedRsdp(pmem, supplied)
            /\ rpc' = "returned"
            /\ UNCHANGED frame_i
       ELSE /\ rpc' = "map"
            /\ frame_i' = FirstFrame
            /\ UNCHANGED rsdp
    /\ UNCHANGED <<pmem, supplied, mapped_frames, scan_addr, read_hi, checksumVars,
                   extVars, madtVars, iterVars, bringupVars>>

\* one round of the mapping loop; search(START_ADDR, END_ADDR) follows the last
MapFrame ==
    /\ rpc = "map"
    /\ mapped_frames' = mapped_frames \cup {frame_i}
    /\ IF frame_i = LastFrame
       THEN /\ rpc' = "scan"
            /\ scan_addr' = START_ADDR
            /\ UNCHANGED frame_i
       ELSE /\ frame_i' = frame_i + 1
            /\ UNCHANGED <<rpc, scan_addr>>
    /\ UNCHANGED <<pmem, supplied, read_hi, rsdp, checksumVars,
                   extVars, madtVars, iterVars, bringupVars>>

\* mapper.get_mut()? when the mapper gives no mutable access
MapperUnavailable ==
    /\ rpc = "map"
    /\ frame_i = FirstFrame
    /\ rsdp' = NoRsdp
    /\ rpc' = "returned"
    /\ UNCHANGED <<pmem, supplied, frame_i, mapped_frames, scan_addr, read_hi,
                   checksumVars, extVars, madtVars, iterVars, bringupVars>>

\* map_phys(...).ok()? when the mapping fails
MapFrameFails ==
    /\ rpc = "map"
    /\ rsdp' = NoRsdp
    /\ rpc' = "returned"
    /\ UNCHANGED <<pmem, supplied, frame_i, mapped_frames, scan_addr, read_hi,
                   checksumVars, extVars, madtVars, iterVars, bringupVars>>

\* search(): the candidate at scan_addr is read and tested, the scan moves on
ScanStep ==
    /\ rpc = "scan"
    /\ read_hi' = Max(read_hi, scan_addr + RSDP_SIZE - 1)
    /\ IF CandidateMatches(pmem, scan_addr)
       THEN /\ rsdp' = SomeRsdp(scan_addr)
            /\ rpc' = "returned"
            /\ UNCHANGED scan_addr
       ELSE IF scan_addr + SCAN_STEP > END_ADDR
            THEN /\ rsdp' = NoRsdp
                 /\ rpc' = "returned"
                 /\ UNCHANGED scan_addr
            ELSE /\ scan_addr' = scan_addr + SCAN_STEP
                 /\ UNCHANGED <<rsdp, rpc>>
    /\ UNCHANGED <<pmem, supplied, frame_i, mapped_frames, checksumVars,
                   extVars, madtVars, iterVars, bringupVars>>

\* the read of a candidate that runs past the last mapped frame may fault
ScanFaults ==
    /\ rpc = "scan"
    /\ FrameContaining(scan_addr + RSDP_SIZE - 1) \notin mapped_frames
    /\ rpc' = "fault"
    /\ read_hi' = Max(read_hi, scan_addr + RSDP_SIZE - 1)
    /\ UNCHANGED <<pmem, supplied, frame_i, mapped_frames, scan_addr, rsdp,
                   checksumVars, extVars, madtVars, iterVars, bringupVars>>

RsdpNext ==
    \/ GetRsdp
    \/ MapFrame
    \/ MapperUnavailable
    \/ MapFrameFails
    \/ ScanStep
    \/ ScanFaults

SpecRsdp == RsdpInit /\ [][RsdpNext]_vars

\* the 16-byte-aligned addresses of the window
AlignedCandidates == {START_ADDR + SCAN_STEP * k : k \in 0..((END_ADDR - START_ADDR) \div SCAN_STEP)}

\* the first 8 bytes at a are "RSD PTR " and the first 20 sum to 0 mod 256
Qualifies(m, a) ==
    /\ \A k \in 1..8 : RByte(m, a + k - 1) = RSDP_SIGNATURE[k]
    /\ PlainSum(m, a) % 256 = 0

\* the qualifying candidate at the lowest aligned address of the window, if any
LowestQualifying(m) ==
    LET hits == {a \in AlignedCandidates : Qualifies(m, a)}
    IN IF hits = {} THEN NoRsdp
       ELSE SomeRsdp(CHOOSE a \in hits : \A b \in hits : a <= b)

WindowFrames == FirstFrame..LastFrame

\* C8 as stated: with a supplied address only that descriptor's checksum is
\* validated, the window is never mapped or scanned, and the result is the
\* supplied descriptor when its checksum is valid and none when it is not.
SuppliedNeverScans ==
    supplied.some =>
        /\ mapped_frames = {}
        /\ read_hi = 0
        /\ rpc \notin {"map", "scan", "fault"}
        /\ rpc = "returned" =>
            rsdp = IF PlainSum(pmem, supplied.ptr) % 256 = 0
                   THEN SomeRsdp(supplied.ptr) ELSE NoRsdp

\* C9 as stated: with no supplied address the result is the qualifying
\* candidate at the lowest aligned address of the window, none when there is
\* no such candidate.
ScanReturnsLowest ==
    (rpc = "returned" /\ ~supplied.some) => rsdp = LowestQualifying(pmem)

\* C9, amended: with no supplied address, a call that maps the whole window
\* and returns gives the qualifying candidate at the lowest aligned address of
\* the window, none when there is none, and so never an unaligned or a
\* non-qualifying candidate; a call that fails to map a frame returns none
\* without reading the window.
ScanReturnsLowestWhenMapped ==
    (rpc = "returned" /\ ~supplied.some) =>
        IF mapped_frames = WindowFrames
        THEN /\ rsdp = LowestQualifying(pmem)
             /\ rsdp.some =>
                    /\ rsdp.addr \in START_ADDR..END_ADDR
                    /\ (rsdp.addr - START_ADDR) % 16 = 0
                    /\ Qualifies(pmem, rsdp.addr)
        ELSE rsdp = NoRsdp /\ read_hi = 0

\* the scan passed over a qualifying descriptor at an unaligned address and
\* returned the one at the last candidate
ScanSkippedUnaligned ==
    /\ rpc = "returned"
    /\ ~supplied.some
    /\ Qualifies(pmem, START_ADDR + 40)
    /\ rsdp = SomeRsdp(LastCandidate)

\* ------------------------------------------------------------------------
\* Root lists (acpi/rsdt.rs, acpi/xsdt.rs)
\* ------------------------------------------------------------------------

SizeOfU32 == 4              \* mem::size_of::<u32>()
SizeOfU64 == 8              \* mem::size_of::<u64>()

\* ptr::read_unaligned of an n-byte integer at data offset off, as its
\* little-endian bytes
ReadUnaligned(data, off, n) == [k \in 1..n |-> ByteAt(data, off + k - 1)]

\* `as usize`: the low bytes of the value, zero-extended to the width of usize
AsUsize(bytes, width) == [k \in 1..width |-> IF k <= Len(bytes) THEN bytes[k] ELSE 0]

\* an entry count that forgets the division by the entry size
RsdtEntryCountBytes(length) == data_len(length)

\* RsdtIter::next: self.sdt.data_len() / mem::size_of::<u32>()
RsdtEntryCount(length) == data_len(length) \div SizeOfU32

\* XsdtIter::next: self.sdt.data_len() / mem::size_of::<u64>()
XsdtEntryCount(length) == data_len(length) \div SizeOfU64

\* RsdtIter::next on table tab with cursor i
RsdtIterNext(tab, i, width) ==
    IF i < RsdtEntryCount(tab.length)
    THEN [some |-> TRUE, i |-> i + 1,
          item |-> AsUsize(ReadUnaligned(tab.data, i * SizeOfU32, SizeOfU32), width)]
    ELSE [some |-> FALSE, i |-> i, item |-> <<>>]

\* XsdtIter::next on table tab with cursor i
XsdtIterNext(tab, i, width) ==
    IF i < XsdtEntryCount(tab.length)
    THEN [some |-> TRUE, i |-> i + 1,
          item |-> AsUsize(ReadUnaligned(tab.data, i * SizeOfU64, SizeOfU64), width)]
    ELSE [some |-> FALSE, i |-> i, item |-> <<>>]

\* ---- the tables firmware can hand over

\* most addresses in a root list
MaxAddrs == 2

\* most times a table is iterated again
MaxRestarts == 1

\* physical addresses below 2^32, as 4 little-endian bytes
AddrChoices == {<<0, 0, 0, 0>>, <<0, 16, 254, 7>>, <<64, 226, 1, 128>>, <<255, 255, 255, 255>>}

\* the addresses as packed 32-bit entries
RECURSIVE Encode32(_)
Encode32(addrs) == IF addrs = <<>> THEN <<>> ELSE Head(addrs) \o Encode32(Tail(addrs))

\* the addresses as packed 64-bit entries
RECURSIVE Encode64(_)
Encode64(addrs) ==
    IF addrs = <<>> THEN <<>> ELSE Head(addrs) \o <<0, 0, 0, 0>> \o Encode64(Tail(addrs))

\* n bytes that follow the last whole entry
Trailing(n) == [k \in 1..n |-> 170]

\* a table whose declared length covers header and data
TableOf(data) == [data |-> data, length |-> SDT_SIZE + Len(data)]

FreshIter == [i |-> 0, out |-> <<>>, done |-> FALSE]

RxInit ==
    /\ GicOff
    /\ HeapOff
    /\ rx_addrs \in SeqsUpTo(AddrChoices, MaxAddrs)
    /\ usize_bytes \in {4, 8}
    /\ \E t \in 0..(SizeOfU32 - 1) : rsdt_tab = TableOf(Encode32(rx_addrs) \o Trailing(t))
    /\ \E t \in 0..(SizeOfU64 - 1) : xsdt_tab = TableOf(Encode64(rx_addrs) \o Trailing(t))
    /\ rsdt_it = FreshIter
    /\ xsdt_it = FreshIter
    /\ rsdt_runs = <<>>
    /\ xsdt_runs = <<>>
    /\ madt_mem = <<>> /\ sdt_length = 0 /\ sdt_signature = "none"
    /\ madt = "unset" /\ it_i = -1 /\ it_last = NoCall /\ reads = {} /\ yielded = {}
    /\ BringupOff
    /\ RsdpOff
    /\ AcpiOff
    /\ ConsumersOff

\* one call of RsdtIter::next
RsdtNext ==
    /\ ~rsdt_it.done
    /\ LET r == RsdtIterNext(rsdt_tab, rsdt_it.i, usize_bytes)
       IN IF r.some
          THEN /\ rsdt_it' = [i |-> r.i, out |-> Append(rsdt_it.out, r.item), done |-> FALSE]
               /\ UNCHANGED rsdt_runs
          ELSE /\ rsdt_it' = [rsdt_it EXCEPT !.done = TRUE]
               /\ rsdt_runs' = Append(rsdt_runs, rsdt_it.out)
    /\ UNCHANGED <<rx_addrs, usize_bytes, rsdt_tab, xsdt_tab, xsdt_it, xsdt_runs,
                   acpiVars, consumerVars, gicVars, heapVars,
                   madtVars, iterVars, bringupVars, rsdpVars>>

\* one call of XsdtIter::next
XsdtNext ==
    /\ ~xsdt_it.done
    /\ LET r == XsdtIterNext(xsdt_tab, xsdt_it.i, usize_bytes)
       IN IF r.some
          THEN /\ xsdt_it' = [i |-> r.i, out |-> Append(xsdt_it.out, r.item), done |-> FALSE]
               /\ UNCHANGED xsdt_runs
          ELSE /\ xsdt_it' = [xsdt_it EXCEPT !.done = TRUE]
               /\ xsdt_runs' = Append(xsdt_runs, xsdt_it.out)
    /\ UNCHANGED <<rx_addrs, usize_bytes, rsdt_tab, xsdt_tab, rsdt_it, rsdt_runs,
                   acpiVars, consumerVars, gicVars, heapVars,
                   madtVars, iterVars, bringupVars, rsdpVars>>

\* Rsdt::iter called again on the same table
RsdtIterAgain ==
    /\ rsdt_it.done
    /\ Len(rsdt_runs) <= MaxRestarts
    /\ rsdt_it' = FreshIter
    /\ UNCHANGED <<rx_addrs, usize_bytes, rsdt_tab, xsdt_tab, xsdt_it, rsdt_runs, xsdt_runs,
                   acpiVars, consumerVars, gicVars, heapVars,
                   madtVars, iterVars, bringupVars, rsdpVars>>

\* Xsdt::iter called again on the same table
XsdtIterAgain ==
    /\ xsdt_it.done
    /\ Len(xsdt_runs) <= MaxRestarts
    /\ xsdt_it' = FreshIter
    /\ UNCHANGED <<rx_addrs, usize_bytes, rsdt_tab, xsdt_tab, rsdt_it, rsdt_runs, xsdt_runs,
                   acpiVars, consumerVars, gicVars, heapVars,
                   madtVars, iterVars, bringupVars, rsdpVars>>

RxNext == RsdtNext \/ XsdtNext \/ RsdtIterAgain \/ XsdtIterAgain

SpecRx == RxInit /\ [][RxNext]_vars

\* the encoded addresses as usize values, in storage order
ExpectedAddrs == [k \in 1..Len(rx_addrs) |-> rx_addrs[k] \o [j \in 1..(usize_bytes - 4) |-> 0]]

IsPrefix(p, q) == Len(p) <= Len(q) /\ \A k \in 1..Len(p) : p[k] = q[k]

\* C11: the same addresses below 2^32 encoded as 32-bit and as 64-bit entries
\* iterate to the same sequence; each iterator yields floor(data_len /
\* entry size) addresses in storage order, and an iterator obtained again
\* from the same table yields the same sequence.
RootListsAgree ==
    /\ IsPrefix(rsdt_it.out, ExpectedAddrs)
    /\ IsPrefix(xsdt_it.out, ExpectedAddrs)
    /\ \A k \in 1..Len(rsdt_runs) :
        /\ rsdt_runs[k] = ExpectedAddrs
        /\ Len(rsdt_runs[k]) = (rsdt_tab.length - 36) \div 4
    /\ \A k \in 1..Len(xsdt_runs) :
        /\ xsdt_runs[k] = ExpectedAddrs
        /\ Len(xsdt_runs[k]) = (xsdt_tab.length - 36) \div 8
    /\ \A j \in 1..Len(rsdt_runs), k \in 1..Len(xsdt_runs) : rsdt_runs[j] = xsdt_runs[k]

\* both lists, each with bytes left over after the last entry, were iterated
\* twice over two different addresses
RootListsIteratedTwice ==
    /\ Len(rsdt_runs) = 2
    /\ Len(xsdt_runs) = 2
    /\ Len(rx_addrs) = 2
    /\ rx_addrs[1] # rx_addrs[2]
    /\ rsdt_tab.length % 4 # 0
    /\ xsdt_tab.length % 8 # 0
    /\ rsdt_runs[2] = xsdt_runs[1]
    /\ Len(rsdt_runs[2]) = 2

\* ------------------------------------------------------------------------
\* Table registry (acpi/mod.rs)
\* ------------------------------------------------------------------------

\* table signatures, as bytes
SigRSDT == <<82, 83, 68, 84>>
SigXSDT == <<88, 83, 68, 84>>
SigAPIC == <<65, 80, 73, 67>>
SigHPET == <<72, 80, 69, 84>>
SigSSDT == <<83, 83, 68, 84>>
SigGTDT == <<71, 84, 68, 84>>
SigSPCR == <<83, 80, 67, 82>>
\* a signature that is not UTF-8: 0xFF followed by "PIC"
SigNotUtf8 == <<255, 80, 73, 67>>

\* String::from_utf8_lossy on 4 bytes that are ASCII or 0xFF: ASCII bytes are
\* kept as code points, a byte that cannot occur in UTF-8 becomes U+FFFD
FromUtf8Lossy(bytes) == [k \in 1..Len(bytes) |-> IF bytes[k] < 128 THEN bytes[k] ELSE 65533]

\* get_sdt_signature: (signature as String, oem_id, oem_table_id)
GetSdtSignature(t) == <<FromUtf8Lossy(t.signature), t.oem_id, t.oem_table_id>>

\* HashMap::insert: the value of an existing key is replaced
HashMapInsert(map, key, value) == (key :> value) @@ map

\* a lookup that stops at the first match
FindSdtSingle(reg, name) ==
    LET hits == {k \in DOMAIN reg.map : k[1] = name}
    IN IF ~reg.some \/ hits = {} THEN {} ELSE {reg.map[CHOOSE k \in hits : TRUE]}

\* find_sdt: the tables whose key's first component equals name, none when
\* the registry is still None
FindSdt(reg, name) ==
    IF ~reg.some THEN {}
    ELSE {reg.map[k] : k \in {k \in DOMAIN reg.map : k[1] = name}}

\* the entries of a registry, as <<key, table address>>
EntriesOf(reg) == {<<k, reg.map[k]>> : k \in DOMAIN reg.map}

\* the callers of acpi::init: two cores, or one core calling twice
Callers == {1, 2}

\* the address of the root list and of the k-th table listed in it
RootAddr == 0
AddrOf(k) == k

\* a table header, with the fields the consumers read
Tbl(sig, oem, tid, len) ==
    [signature |-> sig, oem_id |-> oem, oem_table_id |-> tid, length |-> len,
     revision |-> 2, interface_type |-> 3, address |-> 1,
     gas |-> <<0, 32, 0, 3>>, gsiv |-> 30]

\* the tables root lists are built from: two with the same signature and
\* different OEM ids, a MADT, an HPET, and one whose signature is not UTF-8
SsdtA == Tbl(SigSSDT, "OEMA", "TBL1", 40)
SsdtB == Tbl(SigSSDT, "OEMB", "TBL1", 44)
ApicA == Tbl(SigAPIC, "OEMA", "TBL1", 52)
HpetA == Tbl(SigHPET, "OEMA", "TBL1", 56)
NotUtf8A == Tbl(SigNotUtf8, "OEMA", "TBL1", 36)

\* the tables a root list names, in its order; the k-th lies at AddrOf(k)
RootLists ==
    { <<>>, <<SsdtA>>, <<SsdtA, SsdtB>>, <<SsdtA, SsdtA>>, <<ApicA, HpetA>>,
      <<NotUtf8A, ApicA>>, <<SsdtA, SsdtB, SsdtA>> }

\* no caller has panicked or faulted
Running == \A p \in DOMAIN apc : apc[p] \notin {"panic", "fault"}

Logged(p, msg) == alog' = alog \cup {<<p, msg>>}

\* ---- the table consumers (acpi/hpet.rs, acpi/gtdt.rs, acpi/spcr.rs, acpi/madt/mod.rs)

SizeOfHpet == 56            \* mem::size_of::<Hpet>()
SizeOfGtdt == 96            \* mem::size_of::<Gtdt>()
SizeOfSpcr == 76            \* mem::size_of::<Spcr>()
MadtMinData == 8            \* sdt.data_len() >= 8

\* what .first() / .get(0) of a lookup result may be: any of the matches, in
\* the hash map's order, or nothing
FirstOf(S) == IF S = {} THEN {NoTable} ELSE S

\* a length check that accepts any table with a full header
HpetLengthOkHeaderOnly(t) == t.length >= SDT_SIZE

\* Hpet::new: sdt.length as usize >= mem::size_of::<Hpet>()
HpetLengthOk(t) == t.length >= SizeOfHpet

\* Hpet::new up to the mapping: signature, length, address space 0
HpetNew(t) == t.signature = SigHPET /\ HpetLengthOk(t) /\ t.gas[1] = 0

\* Gtdt::new
GtdtNew(t) == t.signature = SigGTDT /\ t.length >= SizeOfGtdt

\* Spcr::new: (sdt.length as usize).checked_sub(size_of::<Spcr>()).is_some()
SpcrNew(t) == t.signature = SigSPCR /\ t.length - SizeOfSpcr >= 0

\* Madt::new
MadtNewAccepts(t) == t.signature = SigAPIC /\ data_len(t.length) >= MadtMinData

\* a match that takes every revision
SpcrSupportedAnyRevision(revision, interface_type) == interface_type = 3

\* Spcr::init: the arm (2.., 3) of the match on (revision, interface_type)
SpcrSupported(revision, interface_type) == revision >= 2 /\ interface_type = 3

\* Spcr::init_pl011: the address descriptor the PL011 path accepts
Pl011AddressOk(gas) == gas[1] = 0 /\ gas[2] = 32 /\ gas[3] = 0 /\ gas[4] = 3

\* the consumers acpi::init runs after the loop, in order
ConsumerOrder(target) ==
    IF target = "aarch64" THEN <<"spcr", "madt", "hpet", "gtdt", "done">>
    ELSE <<"madt", "hpet", "done">>

\* the position after consumer c
AfterConsumer(target, c) ==
    LET order == ConsumerOrder(target)
        k == CHOOSE k \in 1..Len(order) : order[k] = c
    IN order[k + 1]

\* Spcr::init
SpcrInit(p) ==
    /\ Running /\ apc[p] = "spcr"
    /\ \E a \in FirstOf(FindSdt(SDT_POINTERS, FromUtf8Lossy(SigSPCR))) :
        IF a = NoTable \/ ~SpcrNew(tables[a])
        THEN /\ Logged(p, "Failed to locate or parse SPCR")
             /\ UNCHANGED <<COM1, device_maps>>
        ELSE LET t == tables[a] IN
             IF t.address = 0
             THEN UNCHANGED <<COM1, device_maps, alog>>
             ELSE IF SpcrSupported(t.revision, t.interface_type)
                  THEN IF Pl011AddressOk(t.gas)
                       THEN /\ device_maps' = device_maps \cup {<<"spcr", a>>}
                            /\ COM1' = a
                            /\ UNCHANGED alog
                       ELSE /\ Logged(p, "SPCR unsupported address for PL011")
                            /\ UNCHANGED <<COM1, device_maps>>
                  ELSE /\ Logged(p, "SPCR unsupported interface type")
                       /\ UNCHANGED <<COM1, device_maps>>
    /\ apc' = [apc EXCEPT ![p] = AfterConsumer(arch, "spcr")]
    /\ UNCHANGED <<arch, root, tables, SDT_POINTERS, RXSDT_ENUM, a_i, a_rsdp, map_failed,
                   derefs, seen, writers, found, hpet_slot, MADT, timer_irqs, arch_inits,
                   rxVars, gicVars, heapVars, madtVars, iterVars, bringupVars, rsdpVars>>

\* Madt::init; the steps of arch::init are those of the bring-up sections
MadtInit(p) ==
    /\ Running /\ apc[p] = "madt"
    /\ \E a \in FirstOf(FindSdt(SDT_POINTERS, FromUtf8Lossy(SigAPIC))) :
        IF a = NoTable
        THEN /\ Logged(p, "Unable to find MADT")
             /\ UNCHANGED <<MADT, arch_inits>>
        ELSE IF MadtNewAccepts(tables[a])
             THEN /\ MADT' = a
                  /\ arch_inits' = arch_inits + 1
                  /\ UNCHANGED alog
             ELSE /\ Logged(p, "Invalid MADT structure.")
                  /\ UNCHANGED <<MADT, arch_inits>>
    /\ apc' = [apc EXCEPT ![p] = AfterConsumer(arch, "madt")]
    /\ UNCHANGED <<arch, root, tables, SDT_POINTERS, RXSDT_ENUM, a_i, a_rsdp, map_failed,
                   derefs, seen, writers, found, hpet_slot, COM1, timer_irqs, device_maps,
                   rxVars, gicVars, heapVars, madtVars, iterVars, bringupVars, rsdpVars>>

\* Hpet::init; Hpet::map cannot fail where it is map_device_memory, and may
\* fail on 32-bit x86
HpetInit(p) ==
    /\ Running /\ apc[p] = "hpet"
    /\ \E a \in FirstOf(FindSdt(SDT_POINTERS, FromUtf8Lossy(SigHPET))) :
        IF a = NoTable \/ ~HpetNew(tables[a])
        THEN UNCHANGED <<hpet_slot, device_maps>>
        ELSE \/ /\ device_maps' = device_maps \cup {<<"hpet", a>>}
                /\ hpet_slot' = a
             \/ /\ arch = "x86"
                /\ UNCHANGED <<hpet_slot, device_maps>>
    /\ apc' = [apc EXCEPT ![p] = AfterConsumer(arch, "hpet")]
    /\ UNCHANGED <<arch, root, tables, SDT_POINTERS, RXSDT_ENUM, a_i, a_rsdp, map_failed,
                   derefs, seen, writers, found, alog, COM1, MADT, timer_irqs, arch_inits,
                   rxVars, gicVars, heapVars, madtVars, iterVars, bringupVars, rsdpVars>>

\* Gtdt::init
GtdtInit(p) ==
    /\ Running /\ apc[p] = "gtdt"
    /\ \E a \in FirstOf(FindSdt(SDT_POINTERS, FromUtf8Lossy(SigGTDT))) :
        IF a = NoTable \/ ~GtdtNew(tables[a])
        THEN UNCHANGED <<timer_irqs, alog>>
        ELSE /\ Logged(p, "generic_timer gsiv")
             /\ timer_irqs' = timer_irqs \cup {<<a, tables[a].gsiv>>}
    /\ apc' = [apc EXCEPT ![p] = AfterConsumer(arch, "gtdt")]
    /\ UNCHANGED <<arch, root, tables, SDT_POINTERS, RXSDT_ENUM, a_i, a_rsdp, map_failed,
                   derefs, seen, writers, found, hpet_slot, COM1, MADT, arch_inits,
                   device_maps, rxVars, gicVars, heapVars, madtVars, iterVars, bringupVars, rsdpVars>>

\* ---- acpi::init

\* what the calls of map_linearly in get_sdt can come to: every page mapped;
\* a page not mapped (the failure is logged and the loop goes on) with the
\* table readable all the same; a page not mapped and the read of the header
\* faulting
MapOutcomes == {"mapped", "failed_readable", "failed_fault"}

\* get_sdt(addr): map_linearly of header and body, then the header is
\* dereferenced whatever map_linearly logged
GetSdt(addr, outcome) ==
    /\ map_failed' = IF outcome = "mapped" THEN map_failed ELSE map_failed \cup {addr}
    /\ derefs' = derefs \cup {addr}

\* SDT_POINTERS.write().replace(HashMap::new())
AcpiInitStart(p) ==
    /\ Running /\ apc[p] = "idle"
    /\ SDT_POINTERS' = [some |-> TRUE, map |-> <<>>]
    /\ writers' = writers \cup {p}
    /\ apc' = [apc EXCEPT ![p] = "get_rsdp"]
    /\ UNCHANGED <<arch, root, tables, RXSDT_ENUM, a_i, a_rsdp, map_failed, derefs, seen,
                   found, alog, consumerVars, rxVars, gicVars, heapVars, madtVars, iterVars, bringupVars,
                   rsdpVars>>

\* search(START_ADDR, END_ADDR) on memory m: the first candidate, in steps of
\* 16 from START_ADDR, that find() accepts; bytes firmware did not write are
\* 0 and match no signature
SearchResult(m) ==
    LET hits == {a \in DOMAIN m :
                    /\ a >= START_ADDR /\ a <= END_ADDR
                    /\ (a - START_ADDR) % SCAN_STEP = 0
                    /\ CandidateMatches(m, a)}
    IN IF hits = {} THEN NoRsdp
       ELSE SomeRsdp(CHOOSE a \in hits : \A b \in hits : a <= b)

\* what RSDP::get_rsdp can return on memory m: the supplied descriptor when
\* its checksum is valid; otherwise none when a frame of the window cannot be
\* mapped, and the first candidate of the scan when it can
GetRsdpResults(m, given) ==
    IF GetAlreadySuppliedRsdp(m, given).some THEN {GetAlreadySuppliedRsdp(m, given)}
    ELSE {NoRsdp, SearchResult(m)}

\* let rsdp_opt = RSDP::get_rsdp(..); None => println!("NO RSDP FOUND"); return
AcpiGetRsdp(p) ==
    /\ Running /\ apc[p] = "get_rsdp"
    /\ \E r \in GetRsdpResults(pmem, supplied) :
        /\ a_rsdp' = [a_rsdp EXCEPT ![p] = r]
        /\ IF r.some
           THEN /\ apc' = [apc EXCEPT ![p] = "get_rxsdt"]
                /\ UNCHANGED alog
           ELSE /\ apc' = [apc EXCEPT ![p] = "returned"]
                /\ Logged(p, "NO RSDP FOUND")
    /\ UNCHANGED <<arch, root, tables, SDT_POINTERS, RXSDT_ENUM, a_i, map_failed, derefs,
                   seen, writers, found, consumerVars, rxVars, gicVars, heapVars, madtVars, iterVars,
                   bringupVars, rsdpVars>>

\* get_sdt(rsdp.sdt_address(), ..) and the match on (Rsdt::new, Xsdt::new);
\* call_once stores the root list only the first time. get_sdt returns None
\* only when the u32 length does not fit usize, which no target has.
AcpiGetRxsdt(p) ==
    /\ Running /\ apc[p] = "get_rxsdt"
    /\ \E outcome \in MapOutcomes :
        /\ GetSdt(RootAddr, outcome)
        /\ IF outcome = "failed_fault"
           THEN /\ apc' = [apc EXCEPT ![p] = "fault"]
                /\ UNCHANGED <<RXSDT_ENUM, a_i, alog>>
           ELSE IF root.signature = SigRSDT \/ root.signature = SigXSDT
                THEN /\ RXSDT_ENUM' =
                            IF RXSDT_ENUM # "unset" THEN RXSDT_ENUM
                            ELSE IF root.signature = SigRSDT THEN "Rsdt" ELSE "Xsdt"
                     /\ a_i' = [a_i EXCEPT ![p] = 0]
                     /\ apc' = [apc EXCEPT ![p] = "loop"]
                     /\ UNCHANGED alog
                ELSE /\ Logged(p, "UNKNOWN RSDT OR XSDT SIGNATURE")
                     /\ apc' = [apc EXCEPT ![p] = "returned"]
                     /\ UNCHANGED <<RXSDT_ENUM, a_i>>
    /\ UNCHANGED <<arch, root, tables, SDT_POINTERS, a_rsdp, seen, writers, found,
                   consumerVars, rxVars, gicVars, heapVars, madtVars, iterVars, bringupVars, rsdpVars>>

\* one turn of `for sdt_addr in rx_enum.iter()`: get_sdt, get_sdt_signature,
\* insert; after the last address the consumers run
AcpiLoop(p) ==
    /\ Running /\ apc[p] = "loop"
    /\ IF a_i[p] < Len(root.entries)
       THEN LET addr == AddrOf(a_i[p] + 1) IN
            \E outcome \in MapOutcomes :
                /\ GetSdt(addr, outcome)
                /\ a_i' = [a_i EXCEPT ![p] = a_i[p] + 1]
                /\ IF outcome = "failed_fault"
                   THEN /\ apc' = [apc EXCEPT ![p] = "fault"]
                        /\ UNCHANGED <<SDT_POINTERS, seen, writers>>
                   ELSE LET reg == [SDT_POINTERS EXCEPT !.map =
                                        HashMapInsert(SDT_POINTERS.map,
                                                      GetSdtSignature(tables[addr]), addr)]
                        IN /\ SDT_POINTERS' = reg
                           /\ seen' = seen \cup EntriesOf(reg)
                           /\ writers' = writers \cup {p}
                           /\ UNCHANGED apc
       ELSE /\ apc' = [apc EXCEPT ![p] = ConsumerOrder(arch)[1]]
            /\ UNCHANGED <<SDT_POINTERS, a_i, map_failed, derefs, seen, writers>>
    /\ UNCHANGED <<arch, root, tables, RXSDT_ENUM, a_rsdp, found, alog, consumerVars,
                   rxVars, gicVars, heapVars, madtVars, iterVars, bringupVars, rsdpVars>>

\* find_sdt called by an observer on another core
FindSdtCall ==
    /\ Running /\ ~found.called
    /\ \E name \in {FromUtf8Lossy(SigSSDT), FromUtf8Lossy(SigAPIC), FromUtf8Lossy(SigGTDT),
                    FromUtf8Lossy(SigNotUtf8)} :
        found' = [called |-> TRUE, name |-> name, result |-> FindSdt(SDT_POINTERS, name)]
    /\ UNCHANGED <<arch, root, tables, SDT_POINTERS, RXSDT_ENUM, apc, a_i, a_rsdp,
                   map_failed, derefs, seen, writers, alog, consumerVars, rxVars, gicVars, heapVars, madtVars,
                   iterVars, bringupVars, rsdpVars>>

\* memory and supplied pointer acpi::init may find: no descriptor at all, a
\* valid one in the window, one with a wrong checksum in the window
RsdpCases ==
    { <<ImageOf({}), FALSE>>,
      <<ImageOf({<<START_ADDR, "valid">>}), FALSE>>,
      <<ImageOf({<<START_ADDR, "badsum">>}), FALSE>> }

AcpiInit ==
    /\ GicOff
    /\ HeapOff
    /\ arch \in {"x86_64", "aarch64"}
    /\ \E c \in RsdpCases :
        /\ pmem = c[1]
        /\ supplied = [some |-> c[2], ptr |-> 0]
    /\ \E sig \in {SigRSDT, SigXSDT, SigAPIC}, listed \in RootLists :
        /\ root = [signature |-> sig, entries |-> [k \in 1..Len(listed) |-> AddrOf(k)]]
        /\ tables = listed
    /\ SDT_POINTERS = [some |-> FALSE, map |-> <<>>]
    /\ RXSDT_ENUM = "unset"
    /\ apc = [p \in Callers |-> "idle"]
    /\ a_i = [p \in Callers |-> 0]
    /\ a_rsdp = [p \in Callers |-> NoRsdp]
    /\ map_failed = {}
    /\ derefs = {}
    /\ seen = {}
    /\ writers = {}
    /\ found = [called |-> FALSE, name |-> <<>>, result |-> {}]
    /\ alog = {}
    /\ ConsumersOff
    /\ RxOff
    /\ rpc = "off" /\ frame_i = 0 /\ mapped_frames = {} /\ scan_addr = 0 /\ read_hi = 0
    /\ rsdp = NoRsdp
    /\ ChecksumOff
    /\ madt_mem = <<>> /\ sdt_length = 0 /\ sdt_signature = "none"
    /\ madt = "unset" /\ it_i = -1 /\ it_last = NoCall /\ reads = {} /\ yielded = {}
    /\ BringupOff

AcpiNext ==
    \/ \E p \in Callers :
        \/ AcpiInitStart(p)
        \/ AcpiGetRsdp(p)
        \/ AcpiGetRxsdt(p)
        \/ AcpiLoop(p)
        \/ SpcrInit(p)
        \/ MadtInit(p)
        \/ HpetInit(p)
        \/ GtdtInit(p)
    \/ FindSdtCall

SpecAcpi == AcpiInit /\ [][AcpiNext]_vars

\* the names looked up
QueryNames == {<<83, 83, 68, 84>>, <<65, 80, 73, 67>>, <<72, 80, 69, 84>>, <<71, 84, 68, 84>>,
               <<65533, 80, 73, 67>>}

\* the registered tables whose own signature reads as name
RegisteredWithSignature(name) ==
    {a \in {e[2] : e \in EntriesOf(SDT_POINTERS)} : FromUtf8Lossy(tables[a].signature) = name}

\* the root-list addresses whose table has a signature that reads as name
ListedWithSignature(name) ==
    {k \in 1..Len(root.entries) : FromUtf8Lossy(tables[root.entries[k]].signature) = name}

\* C12 as stated: a listed table for which mapping a page failed is not
\* dereferenced and not inserted.
MapFailureSkipsTable ==
    \A a \in map_failed \ {RootAddr} :
        /\ a \notin derefs
        /\ \A e \in seen : e[2] # a

\* C13: find_sdt(name) returns exactly the registered tables whose signature
\* is name, all of them when several share it, and nothing when there is no
\* match or the registry is still None.
FindSdtExact ==
    /\ \A name \in QueryNames :
        /\ FindSdt(SDT_POINTERS, name) = RegisteredWithSignature(name)
        /\ ~SDT_POINTERS.some => FindSdt(SDT_POINTERS, name) = {}
    /\ found.called =>
        \A a \in found.result : FromUtf8Lossy(tables[a].signature) = found.name

\* an observer looked up a signature two registered tables share and got both
FoundBothSsdt ==
    /\ found.called
    /\ found.name = FromUtf8Lossy(SigSSDT)
    /\ Cardinality(found.result) = 2
    /\ \E a, b \in found.result : tables[a].oem_id # tables[b].oem_id

\* C14 as stated: after one acpi::init, find_sdt(S) returns as many tables as
\* the root list names tables with signature S.
DuplicatesPreserved ==
    (apc[1] = "done" /\ apc[2] = "idle") =>
        \A name \in QueryNames :
            Cardinality(FindSdt(SDT_POINTERS, name)) = Cardinality(ListedWithSignature(name))

\* C15 as stated: an entry that has been visible in the registry stays in it
\* unchanged, and at most one caller ever writes the registry.
RegistryBuiltOnce ==
    /\ \A e \in seen : SDT_POINTERS.some /\ e \in EntriesOf(SDT_POINTERS)
    /\ Cardinality(writers) <= 1

\* C20 as stated: with nothing supplied and no valid candidate in the window,
\* acpi::init finds no descriptor, leaves the registry empty, and goes on to
\* run the consumers, which report their tables unavailable; nothing panics.
NoRsdpConsumersRun ==
    (~supplied.some /\ ~LowestQualifying(pmem).some) =>
        \A p \in Callers :
            /\ apc[p] \notin {"panic", "fault"}
            /\ apc[p] # "idle" => a_rsdp[p] = NoRsdp /\ SDT_POINTERS.map = <<>>
            /\ apc[p] # "returned"
            /\ apc[p] = "done" => <<p, "Unable to find MADT">> \in alog

\* ---- the consumers on the registries acpi::init can leave behind

\* an HPET at address 1 and, with another OEM id, at address 5; a GTDT at 2;
\* an SPCR at 3; a MADT at 4; each present or absent, with lengths below, at
\* and above what its consumer asks for
HpetTables ==
    { <<>>,
      1 :> Tbl(SigHPET, "OEMA", "TBL1", 55),
      1 :> Tbl(SigHPET, "OEMA", "TBL1", 56),
      1 :> [Tbl(SigHPET, "OEMA", "TBL1", 56) EXCEPT !.gas = <<1, 64, 0, 0>>],
      (1 :> Tbl(SigHPET, "OEMA", "TBL1", 40)) @@ (5 :> Tbl(SigHPET, "OEMB", "TBL1", 60)) }

GtdtTables ==
    { <<>>, 2 :> Tbl(SigGTDT, "OEMA", "TBL1", 95), 2 :> Tbl(SigGTDT, "OEMA", "TBL1", 96) }

SpcrTables ==
    { <<>>, 3 :> Tbl(SigSPCR, "OEMA", "TBL1", 75) } \cup
    { 3 :> [Tbl(SigSPCR, "OEMA", "TBL1", len) EXCEPT
                !.revision = rev, !.interface_type = type, !.address = address, !.gas = gas] :
        len \in {76, 80}, rev \in {0, 1, 2, 3, 255}, type \in {0, 3, 18}, address \in {0, 1},
        gas \in {<<0, 32, 0, 3>>, <<0, 8, 0, 1>>, <<1, 32, 0, 3>>} }

MadtTables ==
    { <<>>, 4 :> Tbl(SigAPIC, "OEMA", "TBL1", 20), 4 :> Tbl(SigAPIC, "OEMA", "TBL1", 43),
      4 :> Tbl(SigAPIC, "OEMA", "TBL1", 44), 4 :> Tbl(SigAPIC, "OEMA", "TBL1", 60) }

\* the registry the loop of acpi::init builds from tables ts
RegistryOf(ts) ==
    [some |-> TRUE,
     map |-> [key \in {GetSdtSignature(ts[a]) : a \in DOMAIN ts} |->
                CHOOSE a \in DOMAIN ts : GetSdtSignature(ts[a]) = key]]

ConsumersInit ==
    /\ GicOff
    /\ HeapOff
    /\ arch \in {"x86", "x86_64", "aarch64"}
    /\ \E h \in HpetTables, g \in GtdtTables, c \in SpcrTables, m \in MadtTables :
        /\ tables = h @@ g @@ c @@ m
        /\ SDT_POINTERS = RegistryOf(h @@ g @@ c @@ m)
    /\ root = [signature |-> SigXSDT, entries |-> <<>>]
    /\ RXSDT_ENUM = "Xsdt"
    /\ apc = [p \in Callers |-> IF p = 1 THEN ConsumerOrder(arch)[1] ELSE "idle"]
    /\ a_i = [p \in Callers |-> 0]
    /\ a_rsdp = [p \in Callers |-> NoRsdp]
    /\ map_failed = {}
    /\ derefs = {}
    /\ seen = {}
    /\ writers = {1}
    /\ found = [called |-> FALSE, name |-> <<>>, result |-> {}]
    /\ alog = {}
    /\ ConsumersOff
    /\ RxOff
    /\ RsdpOff
    /\ madt_mem = <<>> /\ sdt_length = 0 /\ sdt_signature = "none"
    /\ madt = "unset" /\ it_i = -1 /\ it_last = NoCall /\ reads = {} /\ yielded = {}
    /\ BringupOff

ConsumersNext ==
    \E p \in Callers : SpcrInit(p) \/ MadtInit(p) \/ HpetInit(p) \/ GtdtInit(p)

SpecConsumers == ConsumersInit /\ [][ConsumersNext]_vars

\* the registered tables with signature sig
Registered(sig) == {a \in DOMAIN tables : tables[a].signature = sig}

\* C18: a consumer stores, registers or starts something only for a table of
\* its signature whose declared length reaches its structure size (44 for the
\* MADT: 8 bytes of data); with the table absent or too short it changes
\* nothing, and no consumer panics.
ConsumersValidate ==
    /\ \A p \in Callers : apc[p] \notin {"panic", "fault"}
    /\ hpet_slot # NoTable =>
        hpet_slot \in Registered(SigHPET) /\ tables[hpet_slot].length >= 56
    /\ \A e \in timer_irqs : e[1] \in Registered(SigGTDT) /\ tables[e[1]].length >= 96
    /\ COM1 # NoTable => COM1 \in Registered(SigSPCR) /\ tables[COM1].length >= 76
    /\ MADT # NoTable => MADT \in Registered(SigAPIC) /\ tables[MADT].length >= 44
    /\ arch_inits > 0 => MADT # NoTable
    /\ \A e \in device_maps :
        \/ e[1] = "hpet" /\ e[2] \in Registered(SigHPET) /\ tables[e[2]].length >= 56
        \/ e[1] = "spcr" /\ e[2] \in Registered(SigSPCR) /\ tables[e[2]].length >= 76
    /\ (\A a \in Registered(SigHPET) : tables[a].length < 56) =>
        hpet_slot = NoTable /\ \A e \in device_maps : e[1] # "hpet"
    /\ (\A a \in Registered(SigGTDT) : tables[a].length < 96) => timer_irqs = {}
    /\ (\A a \in Registered(SigSPCR) : tables[a].length < 76) =>
        COM1 = NoTable /\ \A e \in device_maps : e[1] # "spcr"
    /\ (\A a \in Registered(SigAPIC) : tables[a].length < 44) =>
        MADT = NoTable /\ arch_inits = 0

\* every consumer has run: the HPET was stored, the short SPCR and the short
\* MADT were turned down, no GTDT was there
ConsumersRanMixed ==
    /\ apc[1] = "done" /\ arch = "aarch64"
    /\ hpet_slot # NoTable
    /\ \E a \in Registered(SigSPCR) : tables[a].length = 75
    /\ COM1 = NoTable
    /\ \E a \in Registered(SigAPIC) : tables[a].length = 43
    /\ MADT = NoTable
    /\ Registered(SigGTDT) = {}
    /\ timer_irqs = {}

\* the SPCR tables for which device memory was mapped or COM1 set
SpcrActedOn == {e[2] : e \in {e \in device_maps : e[1] = "spcr"}} \cup (IF COM1 = NoTable THEN {} ELSE {COM1})

\* C19 as stated: a single (revision, interface type) pair is supported,
\* revision 2 with interface type 3; for every other pair COM1 stays
\* unchanged and no device memory is mapped.
SpcrOneCombination ==
    \A a \in SpcrActedOn :
        /\ tables[a].revision = 2 /\ tables[a].interface_type = 3
        /\ tables[a].address # 0
        /\ tables[a].gas = <<0, 32, 0, 3>>

\* C19, amended: interface type 3 is supported at every revision from 2 up;
\* for every other (revision, interface type) pair COM1 stays unchanged and
\* no device memory is mapped, and for a supported pair COM1 is set exactly
\* when the base address is non-zero and its descriptor is (0, 32, 0, 3).
SpcrSupportedPairs ==
    /\ \A a \in SpcrActedOn :
        /\ tables[a].revision >= 2 /\ tables[a].interface_type = 3
        /\ tables[a].address # 0
        /\ tables[a].gas = <<0, 32, 0, 3>>
        /\ COM1 = a
    /\ (arch = "aarch64" /\ apc[1] # "spcr") =>
        \A a \in Registered(SigSPCR) :
            ( /\ tables[a].length >= 76
              /\ tables[a].revision >= 2 /\ tables[a].interface_type = 3
              /\ tables[a].address # 0
              /\ tables[a].gas = <<0, 32, 0, 3>> ) => COM1 = a
    /\ arch # "aarch64" => COM1 = NoTable

\* COM1 was set from a table of a revision above 2
SpcrSetAtLaterRevision ==
    /\ COM1 # NoTable
    /\ tables[COM1].revision = 255
    /\ <<"spcr", COM1>> \in device_maps

\* ------------------------------------------------------------------------
\* Stack allocation failure during the x86 bring-up
\* ------------------------------------------------------------------------

\* C17 as stated: when the stack allocation for an eligible core fails the
\* bring-up does not panic; it leaves that core out and goes on.
AllocFailureAbandonsCore == [][pc = "alloc" => pc' \in {"write_cb", "next"}]_vars

-----------------------------------------------------------------------------
(* aarch64 interrupt-controller bring-up (acpi/madt/arch/aarch64.rs) *)

MaxGicRecords == 4

\* a GICC or GICD record as firmware writes it: tag, declared length, the
\* physical base address (low byte; the other seven are zero) and, for a
\* GICD, its version byte
GicRecord(tag, len, base, version) ==
    [tag |-> tag, len |-> len, base |-> base, version |-> version]

\* two CPU interfaces at different bases, distributors of every version
\* class, a tag-12 record too short to be a MadtGicd, a local APIC
GicRecords ==
    { GicRecord(11, 80, 16, 0), GicRecord(11, 80, 32, 0),
      GicRecord(12, 24, 65, 1), GicRecord(12, 24, 66, 2), GicRecord(12, 24, 67, 3),
      GicRecord(12, 24, 68, 4),
      GicRecord(12, 12, 69, 3), GicRecord(0, 8, 0, 0) }

\* byte offsets inside the packed structures
GiccBaseOffset == 30        \* MadtGicc.physical_base_address
GicdBaseOffset == 6         \* MadtGicd.physical_base_address
GicdVersionOffset == 18     \* MadtGicd.gic_version

\* the bytes of one record: header, then the structure with base and version
GicBytes(r) ==
    <<r.tag, r.len>> \o
    [k \in 1..(r.len - 2) |->
        IF r.tag = 11 /\ k = GiccBaseOffset + 1 THEN r.base
        ELSE IF r.tag = 12 /\ k = GicdBaseOffset + 1 THEN r.base
        ELSE IF r.tag = 12 /\ k = GicdVersionOffset + 1 THEN r.version
        ELSE 0]

GicTable(rs) == MadtPrefix \o Concat([k \in DOMAIN rs |-> GicBytes(rs[k])])

\* the MadtGicd a Gicd entry refers to
GicdAt(m, ptr) ==
    [physical_base_address |-> ReadUnaligned(m, ptr + GicdBaseOffset, 8),
     gic_version |-> ByteAt(m, ptr + GicdVersionOffset)]

\* the MadtGicc a Gicc entry refers to
GiccAt(m, ptr) ==
    [physical_base_address |-> ReadUnaligned(m, ptr + GiccBaseOffset, 8)]

\* PhysicalAddress::new(base as usize) on a 64-bit target
GicPhys(base) == AsUsize(base, 8)

\* a dispatch that treats every version but 3 as the legacy controller
GicDriverForLegacyDefault(version) ==
    IF version = 3 THEN "GicV3" ELSE "GenericInterruptController"

\* match gicd.gic_version: 1 | 2, 3, _
GicDriverFor(version) ==
    IF version \in {1, 2} THEN "GenericInterruptController"
    ELSE IF version = 3 THEN "GicV3"
    ELSE "unsupported"

\* giccs.iter().take(1)
TakeOne(s) == IF s = <<>> THEN <<>> ELSE <<s[1]>>

\* register_irq_chip: an IrqChipItem around the driver is pushed
RegisterIrqChip(chips, chip) ==
    Append(chips, [phandle |-> 0, parents |-> <<>>, children |-> <<>>, ic |-> chip])

\* initialize_gic_v1_v2: the CPU interface of the first GICC is mapped and
\* initialised and a GenericInterruptController is registered
InitializeGicV1V2(dist) ==
    /\ gic_cpu_ifs' = gic_cpu_ifs \o
           [k \in DOMAIN TakeOne(giccs) |->
               [kind |-> "GicCpuIf",
                base |-> GicPhys(GiccAt(madt_mem, TakeOne(giccs)[k]).physical_base_address)]]
    /\ irq_chip_list' =
           IF TakeOne(giccs) = <<>> THEN irq_chip_list
           ELSE RegisterIrqChip(irq_chip_list,
                    [kind |-> "GenericInterruptController",
                     gic_dist_if |-> dist,
                     gic_cpu_if |->
                         GicPhys(GiccAt(madt_mem, giccs[1]).physical_base_address),
                     irq_range |-> <<0, 0>>])

\* initialize_gic_v3: a GicV3 with no redistributors is registered
InitializeGicV3(dist) ==
    /\ gic_cpu_ifs' = gic_cpu_ifs \o
           [k \in DOMAIN TakeOne(giccs) |-> [kind |-> "GicV3CpuIf", base |-> <<>>]]
    /\ irq_chip_list' =
           IF TakeOne(giccs) = <<>> THEN irq_chip_list
           ELSE RegisterIrqChip(irq_chip_list,
                    [kind |-> "GicV3",
                     gic_dist_if |-> dist,
                     gic_cpu_if |-> <<>>,
                     gicrs |-> <<>>,
                     irq_range |-> <<0, 0>>])

GicInit ==
    /\ gic_fw \in SeqsUpTo(GicRecords, MaxGicRecords)
    /\ madt_mem = GicTable(gic_fw)
    /\ sdt_length = SDT_SIZE + Len(madt_mem)
    /\ sdt_signature = "APIC"
    /\ madt = "some"
    /\ it_i = 8
    /\ it_last = NoCall
    /\ reads = {}
    /\ yielded = <<>>
    /\ gpc = "collect"
    /\ g_i = 8
    /\ giccs = <<>>
    /\ gicd_opt = NoTable
    /\ gic_dist_if = <<>>
    /\ gic_cpu_ifs = <<>>
    /\ irq_chip_list = <<>>
    /\ irq_chip_init = FALSE
    /\ glog = <<>>
    /\ BringupOff
    /\ RsdpOff
    /\ RxOff
    /\ AcpiOff
    /\ ConsumersOff
    /\ HeapOff

\* one turn of `for madt_entry in madt.iter()`: a Gicc is pushed, the first
\* Gicd is kept, a later Gicd is warned about, anything else is passed over
GicCollect ==
    /\ gpc = "collect"
    /\ LET r == MadtIterNext(madt_mem, DataLen, g_i)
       IN IF ~r.some
          THEN /\ gpc' = "gicd"
               /\ UNCHANGED <<g_i, giccs, gicd_opt, glog>>
          ELSE /\ g_i' = r.i
               /\ gpc' = "collect"
               /\ IF r.item.kind = "Gicc"
                  THEN /\ giccs' = Append(giccs, r.item.ptr)
                       /\ UNCHANGED <<gicd_opt, glog>>
                  ELSE IF r.item.kind = "Gicd" /\ gicd_opt = NoTable
                  THEN /\ gicd_opt' = r.item.ptr
                       /\ UNCHANGED <<giccs, glog>>
                  ELSE IF r.item.kind = "Gicd"
                  THEN /\ glog' = Append(glog, "Multiple GICD entries found")
                       /\ UNCHANGED <<giccs, gicd_opt>>
                  ELSE UNCHANGED <<giccs, gicd_opt, glog>>
    /\ UNCHANGED <<gic_fw, gic_dist_if, gic_cpu_ifs, irq_chip_list, irq_chip_init,
                   rxVars, acpiVars, consumerVars, heapVars, madtVars, iterVars, bringupVars,
                   rsdpVars>>

\* let Some(gicd) = gicd_opt else { warn; return }
GicNoGicd ==
    /\ gpc = "gicd"
    /\ gicd_opt = NoTable
    /\ glog' = Append(glog, "No GICD found, aborting initialization")
    /\ gpc' = "returned"
    /\ UNCHANGED <<gic_fw, g_i, giccs, gicd_opt, gic_dist_if, gic_cpu_ifs, irq_chip_list,
                   irq_chip_init, rxVars, acpiVars, consumerVars, heapVars, madtVars, iterVars,
                   bringupVars, rsdpVars>>

\* the distributor of the kept GICD is mapped and initialised
GicDistInit ==
    /\ gpc = "gicd"
    /\ gicd_opt # NoTable
    /\ gic_dist_if' =
           Append(gic_dist_if, GicPhys(GicdAt(madt_mem, gicd_opt).physical_base_address))
    /\ gpc' = "dispatch"
    /\ UNCHANGED <<gic_fw, g_i, giccs, gicd_opt, gic_cpu_ifs, irq_chip_list, irq_chip_init,
                   glog, rxVars, acpiVars, consumerVars, heapVars, madtVars, iterVars, bringupVars,
                   rsdpVars>>

\* match gicd.gic_version
GicDispatch ==
    /\ gpc = "dispatch"
    /\ LET gicd == GicdAt(madt_mem, gicd_opt)
           dist == gic_dist_if[Len(gic_dist_if)]
           driver == GicDriverFor(gicd.gic_version)
       IN IF driver = "GenericInterruptController"
          THEN /\ InitializeGicV1V2(dist)
               /\ UNCHANGED glog
          ELSE IF driver = "GicV3"
          THEN /\ InitializeGicV3(dist)
               /\ UNCHANGED glog
          ELSE /\ glog' = Append(glog, "Unsupported GIC version")
               /\ UNCHANGED <<gic_cpu_ifs, irq_chip_list>>
    /\ gpc' = "irq_chip"
    /\ UNCHANGED <<gic_fw, g_i, giccs, gicd_opt, gic_dist_if, irq_chip_init, rxVars,
                   acpiVars, consumerVars, heapVars, madtVars, iterVars, bringupVars, rsdpVars>>

\* IRQ_CHIP.init(None)
GicIrqChipInit ==
    /\ gpc = "irq_chip"
    /\ irq_chip_init' = TRUE
    /\ gpc' = "done"
    /\ UNCHANGED <<gic_fw, g_i, giccs, gicd_opt, gic_dist_if, gic_cpu_ifs, irq_chip_list,
                   glog, rxVars, acpiVars, consumerVars, heapVars, madtVars, iterVars, bringupVars,
                   rsdpVars>>

GicNext ==
    \/ GicCollect
    \/ GicNoGicd
    \/ GicDistInit
    \/ GicDispatch
    \/ GicIrqChipInit

SpecGic == GicInit /\ [][GicNext]_vars

\* the distributor records of the layout: tag 12 holding a whole MadtGicd
GicDistributors == SelectSeq(gic_fw, LAMBDA r : r.tag = 12 /\ r.len >= SizeOfMadtGicd + 2)

\* the CPU-interface records of the layout: tag 11 holding a whole MadtGicc
GicCpuInterfaces == SelectSeq(gic_fw, LAMBDA r : r.tag = 11 /\ r.len >= SizeOfMadtGicc + 2)

\* the address a one-byte base stands for
GicBase(b) == [k \in 1..8 |-> IF k = 1 THEN b ELSE 0]

\* the drivers in IRQ_CHIP.irq_chip_list.chips
GicDrivers == [k \in DOMAIN irq_chip_list |-> irq_chip_list[k].ic]

\* C16: once arch::init has ended, the registered drivers are decided by the
\* version of the first distributor record alone. With a CPU-interface record
\* present, version 3 leaves exactly one GicV3 driver, version 1 or 2 exactly
\* one GenericInterruptController built on the first CPU-interface record's
\* base, any other version none; a table without a distributor record leaves
\* no driver, no initialised interface and IRQ_CHIP untouched.
GicDispatchesOnFirstGicd ==
    gpc \in {"done", "returned"} =>
        IF GicDistributors = <<>>
        THEN /\ gpc = "returned"
             /\ irq_chip_list = <<>>
             /\ gic_dist_if = <<>>
             /\ gic_cpu_ifs = <<>>
             /\ ~irq_chip_init
        ELSE LET first == GicDistributors[1]
             IN /\ gpc = "done"
                /\ gic_dist_if = <<GicBase(first.base)>>
                /\ IF GicCpuInterfaces = <<>>
                   THEN irq_chip_list = <<>>
                   ELSE IF first.version = 3
                   THEN /\ Len(irq_chip_list) = 1
                        /\ GicDrivers[1].kind = "GicV3"
                        /\ GicDrivers[1].gic_dist_if = GicBase(first.base)
                   ELSE IF first.version \in {1, 2}
                   THEN /\ Len(irq_chip_list) = 1
                        /\ GicDrivers[1].kind = "GenericInterruptController"
                        /\ GicDrivers[1].gic_dist_if = GicBase(first.base)
                        /\ GicDrivers[1].gic_cpu_if = GicBase(GicCpuInterfaces[1].base)
                        /\ gic_cpu_ifs =
                               <<[kind |-> "GicCpuIf",
                                  base |-> GicBase(GicCpuInterfaces[1].base)]>>
                   ELSE irq_chip_list = <<>>

\* two distributor records of different version classes and two CPU
\* interfaces: the first distributor's driver is the one registered
GicLaterGicdIgnored ==
    /\ gpc = "done"
    /\ Len(GicDistributors) = 2
    /\ GicDistributors[1].version = 2
    /\ GicDistributors[2].version = 3
    /\ Len(GicCpuInterfaces) = 2
    /\ GicCpuInterfaces[1].base # GicCpuInterfaces[2].base
    /\ Len(irq_chip_list) = 1
    /\ "Multiple GICD entries found" \in {glog[k] : k \in DOMAIN glog}

-----------------------------------------------------------------------------
(* KernelMapper guards and the kernel heap
   (allocator/linked_list.rs, allocator/mod.rs, and the callers' guard scopes
   in acpi/mod.rs and acpi/madt/arch/x86.rs) *)

HeapExtentPages == 2        \* KERNEL_HEAP_SIZE, in pages
MaxRootEntries == 2         \* addresses the root list yields

\* the steps of a caller that matter to the lock: taking a guard, dropping
\* the newest guard, and a heap allocation
KLock(site) == [op |-> "lock", site |-> site]
KUnlock(site) == [op |-> "unlock", site |-> site]
KAlloc(site) == [op |-> "alloc", site |-> site]

\* one turn of the registry loop: the guard made in the `if let` scrutinee
\* lives to the end of the `if let`, over the String built by
\* get_sdt_signature and the insertion
RegistryLoopTurn ==
    <<KLock("mod.rs:123"), KAlloc("mod.rs:124"), KAlloc("mod.rs:125"), KUnlock("mod.rs:126")>>

RECURSIVE Repeat(_, _)
Repeat(s, n) == IF n = 0 THEN <<>> ELSE s \o Repeat(s, n - 1)

\* acpi::init up to the consumers: get_rsdp and the root table each under a
\* guard dropped at the end of its statement, the boxed root-list iterator,
\* then one loop turn per listed address
AcpiInitLockSteps(n) ==
    <<KLock("mod.rs:95"), KUnlock("mod.rs:95"), KLock("mod.rs:105"), KUnlock("mod.rs:111"),
      KAlloc("mod.rs:122")>> \o Repeat(RegistryLoopTurn, n)

\* the bring-up: the trampoline is mapped under a guard dropped at the end of
\* its block, and unmapped under a guard dropped at the end of its statement
BringupLockSteps ==
    <<KLock("x86.rs:32"), KUnlock("x86.rs:40"), KLock("x86.rs:151"), KUnlock("x86.rs:155")>>

\* KernelMapper::lock: the guard gives the page tables (get_mut is Some) only
\* when no other guard is live
KernelMapperLock(guards, site) ==
    Append(guards, [site |-> site, exclusive |-> guards = <<>>])

DropGuard(guards) == SubSeq(guards, 1, Len(guards) - 1)

\* allocate_first_fit on a heap nothing is freed from
FirstFit(size, used, total) ==
    IF used + size <= total THEN [ok |-> TRUE, ptr |-> used] ELSE [ok |-> FALSE]

\* heap.extend(KERNEL_HEAP_SIZE): map_heap returns nothing to decide on
HeapExtend(size) == size + HeapExtentPages

HeapInit ==
    /\ \E n \in 0..MaxRootEntries : kprog = AcpiInitLockSteps(n) \o BringupLockSteps
    /\ kpc = "run"
    /\ km_guards = <<>>
    /\ heap_size = HeapExtentPages
    /\ heap_used \in 0..HeapExtentPages
    /\ heap_mapped = 0..(HeapExtentPages - 1)
    /\ hpc = "idle"
    /\ alloc_size = 0
    /\ alloc_ret = NoCall
    /\ page_i = 0
    /\ map_failed_once = FALSE
    /\ hlog = <<>>
    /\ madt_mem = <<>>
    /\ sdt_length = SDT_SIZE
    /\ sdt_signature = "APIC"
    /\ madt = "unset"
    /\ it_i = 8
    /\ it_last = NoCall
    /\ reads = {}
    /\ yielded = <<>>
    /\ BringupOff
    /\ RsdpOff
    /\ RxOff
    /\ AcpiOff
    /\ ConsumersOff
    /\ GicOff

\* the caller takes a guard
CallerLock ==
    /\ kpc = "run" /\ kprog # <<>> /\ Head(kprog).op = "lock"
    /\ km_guards' = KernelMapperLock(km_guards, Head(kprog).site)
    /\ kprog' = Tail(kprog)
    /\ kpc' = IF Tail(kprog) = <<>> THEN "done" ELSE "run"
    /\ UNCHANGED <<heap_size, heap_used, heap_mapped, hpc, alloc_size, alloc_ret, page_i,
                   map_failed_once, hlog, rxVars, acpiVars, consumerVars, gicVars, madtVars,
                   iterVars, bringupVars, rsdpVars>>

\* the caller's newest guard goes out of scope
CallerUnlock ==
    /\ kpc = "run" /\ kprog # <<>> /\ Head(kprog).op = "unlock"
    /\ km_guards' = DropGuard(km_guards)
    /\ kprog' = Tail(kprog)
    /\ kpc' = IF Tail(kprog) = <<>> THEN "done" ELSE "run"
    /\ UNCHANGED <<heap_size, heap_used, heap_mapped, hpc, alloc_size, alloc_ret, page_i,
                   map_failed_once, hlog, rxVars, acpiVars, consumerVars, gicVars, madtVars,
                   iterVars, bringupVars, rsdpVars>>

\* the caller allocates: Allocator::alloc is entered with some layout
CallerAlloc ==
    /\ kpc = "run" /\ kprog # <<>> /\ Head(kprog).op = "alloc"
    /\ \E size \in 1..(HeapExtentPages + 1) : alloc_size' = size
    /\ hpc' = "first_fit"
    /\ kpc' = "in_alloc"
    /\ map_failed_once' = FALSE
    /\ UNCHANGED <<kprog, km_guards, heap_size, heap_used, heap_mapped, alloc_ret, page_i,
                   hlog, rxVars, acpiVars, consumerVars, gicVars, madtVars,
                   iterVars, bringupVars, rsdpVars>>

\* HashMap::insert with room left in the table: nothing is allocated
CallerInsertInPlace ==
    /\ kpc = "run" /\ kprog # <<>> /\ Head(kprog) = KAlloc("mod.rs:125")
    /\ kprog' = Tail(kprog)
    /\ UNCHANGED <<kpc, km_guards, heap_size, heap_used, heap_mapped, hpc, alloc_size,
                   alloc_ret, page_i, map_failed_once, hlog, rxVars, acpiVars, consumerVars,
                   gicVars, madtVars, iterVars, bringupVars, rsdpVars>>

\* heap.allocate_first_fit(layout): Ok returns, Err goes on to extend the heap
AllocFirstFit ==
    /\ hpc = "first_fit"
    /\ LET r == FirstFit(alloc_size, heap_used, heap_size)
       IN IF r.ok
          THEN /\ alloc_ret' = [called |-> TRUE, null |-> FALSE, ptr |-> r.ptr]
               /\ heap_used' = heap_used + alloc_size
               /\ hpc' = "ret"
          ELSE /\ hpc' = "lock"
               /\ UNCHANGED <<alloc_ret, heap_used>>
    /\ UNCHANGED <<kprog, kpc, km_guards, heap_size, heap_mapped, alloc_size, page_i,
                   map_failed_once, hlog, rxVars, acpiVars, consumerVars, gicVars, madtVars,
                   iterVars, bringupVars, rsdpVars>>

\* &mut KernelMapper::lock() as the argument of map_heap
AllocLock ==
    /\ hpc = "lock"
    /\ km_guards' = KernelMapperLock(km_guards, "linked_list.rs:31")
    /\ page_i' = 0
    /\ hpc' = "map_heap"
    /\ UNCHANGED <<kprog, kpc, heap_size, heap_used, heap_mapped, alloc_size, alloc_ret, hlog,
                   map_failed_once,
                   rxVars, acpiVars, consumerVars, gicVars, madtVars, iterVars, bringupVars,
                   rsdpVars>>

\* map_heap without the page tables: the error is logged and nothing is mapped
MapHeapNoMapper ==
    /\ hpc = "map_heap"
    /\ ~km_guards[Len(km_guards)].exclusive
    /\ hlog' = Append(hlog, "Failed to obtain exclusive access to KernelMapper")
    /\ map_failed_once' = TRUE
    /\ hpc' = "extend"
    /\ UNCHANGED <<kprog, kpc, km_guards, heap_size, heap_used, heap_mapped, alloc_size,
                   alloc_ret, page_i, rxVars, acpiVars, consumerVars, gicVars, madtVars,
                   iterVars, bringupVars, rsdpVars>>

\* one turn of map_heap's loop over the pages of the new range: the page is
\* mapped, or the mapping fails, is logged, and map_heap returns
MapHeapPage ==
    /\ hpc = "map_heap"
    /\ km_guards[Len(km_guards)].exclusive
    /\ IF page_i >= HeapExtentPages
       THEN /\ hpc' = "extend"
            /\ UNCHANGED <<heap_mapped, page_i, map_failed_once, hlog>>
       ELSE \E mapped \in BOOLEAN :
            IF mapped
            THEN /\ heap_mapped' = heap_mapped \cup {heap_size + page_i}
                 /\ page_i' = page_i + 1
                 /\ UNCHANGED <<hpc, map_failed_once, hlog>>
            ELSE /\ hlog' = Append(hlog, "Failed to map kernel heap")
                 /\ map_failed_once' = TRUE
                 /\ hpc' = "extend"
                 /\ UNCHANGED <<heap_mapped, page_i>>
    /\ UNCHANGED <<kprog, kpc, km_guards, heap_size, heap_used, alloc_size, alloc_ret, rxVars,
                   acpiVars, consumerVars, gicVars, madtVars, iterVars, bringupVars, rsdpVars>>

\* map_heap has returned and its guard is dropped; heap.extend(KERNEL_HEAP_SIZE)
AllocExtend ==
    /\ hpc = "extend"
    /\ km_guards' = DropGuard(km_guards)
    /\ heap_size' = HeapExtend(heap_size)
    /\ hpc' = "retry"
    /\ UNCHANGED <<kprog, kpc, heap_used, heap_mapped, alloc_size, alloc_ret, page_i,
                   map_failed_once, hlog, rxVars, acpiVars, consumerVars, gicVars, madtVars,
                   iterVars, bringupVars, rsdpVars>>

\* the retry: allocate_first_fit(layout).ok().map_or(null_mut(), ..)
AllocRetry ==
    /\ hpc = "retry"
    /\ LET r == FirstFit(alloc_size, heap_used, heap_size)
       IN IF r.ok
          THEN /\ alloc_ret' = [called |-> TRUE, null |-> FALSE, ptr |-> r.ptr]
               /\ heap_used' = heap_used + alloc_size
          ELSE /\ alloc_ret' = [called |-> TRUE, null |-> TRUE]
               /\ UNCHANGED heap_used
    /\ hpc' = "ret"
    /\ UNCHANGED <<kprog, kpc, km_guards, heap_size, heap_mapped, alloc_size, page_i,
                   map_failed_once, hlog, rxVars, acpiVars, consumerVars, gicVars, madtVars,
                   iterVars, bringupVars, rsdpVars>>

\* alloc returns to the caller: a null pointer ends it (handle_alloc_error)
AllocReturn ==
    /\ hpc = "ret"
    /\ hpc' = "idle"
    /\ IF alloc_ret.null
       THEN /\ kpc' = "abort"
            /\ UNCHANGED kprog
       ELSE /\ kprog' = Tail(kprog)
            /\ kpc' = IF Tail(kprog) = <<>> THEN "done" ELSE "run"
    /\ UNCHANGED <<km_guards, heap_size, heap_used, heap_mapped, alloc_size, alloc_ret,
                   page_i, map_failed_once, hlog, rxVars, acpiVars, consumerVars, gicVars,
                   madtVars, iterVars, bringupVars, rsdpVars>>

HeapNext ==
    \/ CallerLock
    \/ CallerUnlock
    \/ CallerAlloc
    \/ CallerInsertInPlace
    \/ AllocFirstFit
    \/ AllocLock
    \/ MapHeapNoMapper
    \/ MapHeapPage
    \/ AllocExtend
    \/ AllocRetry
    \/ AllocReturn

SpecHeap == HeapInit /\ [][HeapNext]_vars

\* C21 as stated: at no step of acpi::init or of the bring-up is the
\* KernelMapper acquired while a guard of an earlier acquisition is live, so
\* at most one guard is ever held.
KernelMapperNeverReentered == Len(km_guards) <= 1

\* C26 as stated: the heap covers only pages that were mapped, and an
\* extension whose mapping failed leaves the heap size as it was and makes
\* alloc return null.
HeapGrowsOverMappedOnly ==
    /\ 0..(heap_size - 1) \subseteq heap_mapped
    /\ (hpc = "ret" /\ map_failed_once) => alloc_ret.null

-----------------------------------------------------------------------------
(* the control block's target field *)

\* C22 as stated: whenever an INIT or STARTUP IPI goes out, the target field
\* of the control block written for that core holds the hardware (local-APIC)
\* id the IPI is addressed to, also for a record whose processor id differs
\* from its APIC id.
ControlBlockTargetsHardwareId ==
    \A k \in DOMAIN log :
        IsIpi(log[k]) => log[k].arg.cb.cpu_id = log[k].arg.icr.dest

-----------------------------------------------------------------------------
(* Progress of the bring-up *)

\* the primary core's own steps: it runs init() to its end, one statement
\* after the other
PrimaryStep ==
    \/ ReturnSingleCore
    \/ MapTrampoline
    \/ MapTrampolinePanics
    \/ CopyTrampoline
    \/ LoopEnter
    \/ NextEntry
    \/ AllocStack
    \/ AllocStackPanics
    \/ WriteControlBlock
    \/ ClearApReady
    \/ SendInit
    \/ SendStartup
    \/ WaitReady
    \/ WaitApReady
    \/ InvalidateAll
    \/ UnmapTrampoline
    \/ UnmapTrampolinePanics

\* the primary keeps executing; a core running the trampoline or kstart_ap
\* keeps executing unless it stalls
SpecLive ==
    /\ Init
    /\ [][Next]_vars
    /\ WF_vars(PrimaryStep)
    /\ WF_vars(ApSetReady)
    /\ WF_vars(ApKernelReady)

\* every eligible record's core is up, init() has returned and the
\* trampoline page is unmapped again
BringupComplete ==
    /\ pc = "done"
    /\ ~trampoline_mapped
    /\ CountEv("unmap") = 1
    /\ \A off \in EligibleOffsets : ap_state[FwAt(off).r.id] = "up"
    /\ \A off \in EligibleOffsets :
          \E k \in DOMAIN log : log[k].ev = "startup_ipi" /\ log[k].rec = off

\* C23: with the multi-core feature on, when no started core stalls and no
\* expect() on a frame allocation or on the trampoline mapping fires, the
\* bring-up eventually has started every eligible core and unmapped the
\* trampoline page.
BringupTerminates ==
    (multi_core /\ [](Stalled = {} /\ pc # "panic")) => <>BringupComplete

\* two eligible cores were started one after the other and the page is gone
BringupCompleteTwoCores ==
    /\ multi_core
    /\ BringupComplete
    /\ Cardinality(EligibleOffsets) >= 2
    /\ Cardinality({id \in DOMAIN ap_state : ap_state[id] = "up"}) >= 2

-----------------------------------------------------------------------------
(* Termination of the record iteration *)

\* C24 as stated: every call of next() that yields a record leaves the cursor
\* strictly beyond where it was, so the iteration ends after finitely many
\* records whatever the bytes of the data region are.
IterYieldAdvancesCursor ==
    [][(it_i >= 0 /\ it_last'.called /\ it_last'.some) => it_i' > it_i]_vars

-----------------------------------------------------------------------------
(* Reads of the root-pointer scan *)

\* C25 as stated: no byte read for a candidate of the scan lies above the end
\* of the window, 0xFFFFF, the last address the mapping loop covers.
ScanReadsInsideWindow == read_hi <= END_ADDR
====
